---- MODULE Spec2Model ----
(***************************************************************************)
(* State store of the weekly report tracker: AppState (src/src/models.py)  *)
(* and DataManager (src/src/data_manager.py), with the three files the     *)
(* DataManager touches: database.json, database.json.tmp and               *)
(* database.json.backup; and ReportGenerator                               *)
(* (src/src/report_generator.py) with the files of its output directory.   *)
(*                                                                         *)
(* Python values are represented as follows.                               *)
(*   str            a sequence of one-character strings                    *)
(*   Optional[x]    None is << >>, a present value x is <<x>>              *)
(*   datetime       a clock reading 0..99                                  *)
(*   list           a sequence                                             *)
(*   dict           a sequence of [k, v] pairs in insertion order          *)
(*   JSON value     a record tagged by t: null, str, num, arr, obj; the    *)
(*                  members of an object read by key are a record, those   *)
(*                  of an object that is iterated (project_mappings) are a *)
(*                  sequence of [k, v] pairs in file order; {} is << >>    *)
(*   file content   NoFile, or a record tagged by t: text (a complete JSON *)
(*                  document), garbage (bytes that are not JSON), partial  *)
(*                  (a document cut short, possibly empty)                 *)
(*   date           a day number; day 0 is a Monday, and a clock reading   *)
(*                  counts half days: readings 2d and 2d + 1 fall on day d *)
(***************************************************************************)
EXTENDS Integers, Sequences, FiniteSets, TLC

VARIABLES
    alive,        \* a DataManager object exists (its constructor returned)
    app_state,    \* DataManager.app_state: None or an AppState record
    data_file,    \* content of self.data_file (database.json)
    tmp_file,     \* content of database.json.tmp
    backup_file,  \* content of database.json.backup
    now,          \* the clock read by datetime.now()
    raised,       \* exception that escaped the last call, "none" if none
    last_call,    \* the last call made: operation, arguments, result
    failures,     \* number of saves in a row that have met an I/O error
    pc,           \* position inside _save_data when it is run step by step
    reports,      \* the files of ReportGenerator.output_dir: name -> content
    lock_file,    \* content of /tmp/weekly-report-tray.lock
    proc          \* the runs of main() of tray_daemon.py: where each one is

vars == <<alive, app_state, data_file, tmp_file, backup_file, now, raised, last_call,
          failures, pc, reports, lock_file, proc>>

\* the runs of main() of tray_daemon.py that are followed
MaxProcs == 2
Procs == 1..MaxProcs

\* a run of main() that has not begun
NotStarted == [pc |-> "idle", pid |-> << >>]

(***************************************************************************)
(* Bounds of the model.                                                    *)
(***************************************************************************)
MaxTime == 2
MaxFailures == 1

(***************************************************************************)
(* Strings.                                                                *)
(***************************************************************************)
None == << >>
Some(x) == <<x>>

UpperChars == <<"A","B","C","D","E","F","G","H","I","J","K","L","M",
                "N","O","P","Q","R","S","T","U","V","W","X","Y","Z">>
LowerChars == <<"a","b","c","d","e","f","g","h","i","j","k","l","m",
                "n","o","p","q","r","s","t","u","v","w","x","y","z">>

UpperSet == {UpperChars[i] : i \in 1..Len(UpperChars)}
LowerOf == [c \in UpperSet |-> LowerChars[CHOOSE i \in 1..Len(UpperChars) : UpperChars[i] = c]]

lower_char(c) == IF c \in UpperSet THEN LowerOf[c] ELSE c

\* str.lower()
lower(s) == [i \in 1..Len(s) |-> lower_char(s[i])]

\* sub in s
str_in(sub, s) ==
    \E i \in 0..(Len(s) - Len(sub)) : SubSeq(s, i + 1, i + Len(sub)) = sub

\* x in list
list_in(x, xs) == \E i \in 1..Len(xs) : xs[i] = x

Min(a, b) == IF a < b THEN a ELSE b

\* ticket.split('-')[0]
split_dash_first(s) ==
    IF \E i \in 1..Len(s) : s[i] = "-"
    THEN SubSeq(s, 1, (CHOOSE i \in 1..Len(s) :
                          s[i] = "-" /\ \A j \in 1..(i - 1) : s[j] # "-") - 1)
    ELSE s

\* s.startswith(p)
IsPrefixSeq(p, s) == Len(p) <= Len(s) /\ SubSeq(s, 1, Len(p)) = p

\* ticket[:3]
first3(s) == SubSeq(s, 1, Min(3, Len(s)))

\* ticket[:3] whether or not the ticket holds a '-'
ticket_prefix_first3(ticket) == first3(ticket)

\* ticket.split('-')[0] if '-' in ticket else ticket[:3]
ticket_prefix(ticket) ==
    IF str_in(<<"-">>, ticket) THEN split_dash_first(ticket) ELSE first3(ticket)

(***************************************************************************)
(* datetime.isoformat / datetime.fromisoformat: a clock reading is written *)
(* as a fixed-width field of two decimal digits.                           *)
(***************************************************************************)
DigitChars == <<"0","1","2","3","4","5","6","7","8","9">>

isoformat(ts) == <<DigitChars[(ts \div 10) + 1], DigitChars[(ts % 10) + 1]>>

is_digit(c) == \E i \in 1..10 : DigitChars[i] = c
digit_value(c) == (CHOOSE i \in 1..10 : DigitChars[i] = c) - 1

\* fromisoformat raises ValueError on a string that is not in the format
iso_valid(s) == Len(s) = 2 /\ is_digit(s[1]) /\ is_digit(s[2])
fromisoformat(s) == digit_value(s[1]) * 10 + digit_value(s[2])

(***************************************************************************)
(* JSON values.                                                            *)
(***************************************************************************)
JNull == [t |-> "null"]
JStr(s) == [t |-> "str", v |-> s]
JNum(n) == [t |-> "num", v |-> n]
JArr(xs) == [t |-> "arr", v |-> xs]
JObj(members) == [t |-> "obj", v |-> members]

has_key(d, key) == key \in DOMAIN d.v
item(d, key) == d.v[key]
\* dict.get(key, default)
dict_get(d, key, default) == IF has_key(d, key) THEN item(d, key) ELSE default

\* truth value of a JSON value as Python sees it after json.load
truthy(j) ==
    CASE j.t = "null" -> FALSE
      [] j.t = "num" -> j.v # 0
      [] OTHER -> j.v # << >>

\* Optional[str] <-> JSON
opt_to_json(o) == IF o = None THEN JNull ELSE JStr(o[1])
\* reading an empty string back as None
json_to_opt_falsy(j) == IF j.t = "null" \/ j.v = << >> THEN None ELSE Some(j.v)
json_to_opt(j) == IF j.t = "null" THEN None ELSE Some(j.v)

Raise(e) == [exc |-> e]
Return(v) == [exc |-> "none", val |-> v]

(***************************************************************************)
(* WorkEntry, ProjectMapping, AppState: to_dict and from_dict.             *)
(***************************************************************************)
DefaultDuration == 60

WorkEntry(timestamp, ticket, project, details) ==
    [timestamp |-> timestamp, ticket |-> ticket, project |-> project,
     details |-> details, duration |-> DefaultDuration]

WorkEntry_to_dict(e) ==
    JObj([timestamp |-> JStr(isoformat(e.timestamp)),
          ticket |-> JStr(e.ticket),
          project |-> JStr(e.project),
          details |-> JStr(e.details),
          duration |-> JNum(e.duration)])

WorkEntry_from_dict(data) ==
    IF data.t # "obj" THEN Raise("TypeError")
    ELSE IF ~has_key(data, "timestamp") THEN Raise("KeyError")
    ELSE IF item(data, "timestamp").t # "str" THEN Raise("TypeError")
    ELSE IF ~iso_valid(item(data, "timestamp").v) THEN Raise("ValueError")
    ELSE IF ~has_key(data, "ticket") THEN Raise("KeyError")
    ELSE IF ~has_key(data, "project") THEN Raise("KeyError")
    ELSE Return([timestamp |-> fromisoformat(item(data, "timestamp").v),
                 ticket |-> item(data, "ticket").v,
                 project |-> item(data, "project").v,
                 details |-> dict_get(data, "details", JStr(<< >>)).v,
                 duration |-> dict_get(data, "duration", JNum(DefaultDuration)).v])

ProjectMapping(name) == [ticket_patterns |-> << >>, name |-> name]

ProjectMapping_to_dict(m) ==
    JObj([ticket_patterns |->
              JArr([i \in 1..Len(m.ticket_patterns) |-> JStr(m.ticket_patterns[i])]),
          name |-> JStr(m.name)])

ProjectMapping_from_dict(data) ==
    IF data.t # "obj" THEN Raise("AttributeError")
    ELSE LET tp == dict_get(data, "ticket_patterns", JArr(<< >>))
         IN  Return([ticket_patterns |-> [i \in 1..Len(tp.v) |-> tp.v[i].v],
                     name |-> dict_get(data, "name", JStr(<< >>)).v])

AppState_default ==
    [current_ticket |-> None, current_project |-> None, current_details |-> None,
     last_activity |-> None, work_entries |-> << >>, project_mappings |-> << >>]

AppState_to_dict(s) ==
    JObj([current_ticket |-> opt_to_json(s.current_ticket),
          current_project |-> opt_to_json(s.current_project),
          current_details |-> opt_to_json(s.current_details),
          last_activity |->
              IF s.last_activity # None THEN JStr(isoformat(s.last_activity[1]))
              ELSE JNull,
          work_entries |->
              JArr([i \in 1..Len(s.work_entries) |->
                       WorkEntry_to_dict(s.work_entries[i])]),
          project_mappings |->
              JObj([i \in 1..Len(s.project_mappings) |->
                       [k |-> s.project_mappings[i].k,
                        v |-> ProjectMapping_to_dict(s.project_mappings[i].v)]])])

\* [WorkEntry.from_dict(entry) for entry in data.get("work_entries", [])]
work_entries_from(we) ==
    IF we.t \in {"null", "num"} THEN Raise("TypeError")
    ELSE IF we.t \in {"str", "obj"}
         THEN IF we.v = << >> THEN Return(<< >>) ELSE Raise("TypeError")
    ELSE LET r == [i \in 1..Len(we.v) |-> WorkEntry_from_dict(we.v[i])]
         IN  IF \E i \in 1..Len(r) : r[i].exc # "none"
             THEN Raise(r[CHOOSE i \in 1..Len(r) :
                              r[i].exc # "none" /\ \A j \in 1..(i - 1) : r[j].exc = "none"].exc)
             ELSE Return([i \in 1..Len(r) |-> r[i].val])

\* {k: ProjectMapping.from_dict(v) for k, v in data.get("project_mappings", {}).items()}
project_mappings_from(pm) ==
    IF pm.t # "obj" THEN Raise("AttributeError")
    ELSE LET r == [i \in 1..Len(pm.v) |-> ProjectMapping_from_dict(pm.v[i].v)]
         IN  IF \E i \in 1..Len(r) : r[i].exc # "none"
             THEN Raise("AttributeError")
             ELSE Return([i \in 1..Len(r) |-> [k |-> pm.v[i].k, v |-> r[i].val]])

AppState_from_dict(data) ==
    IF data.t # "obj" THEN Raise("AttributeError")
    ELSE LET la == dict_get(data, "last_activity", JNull)
             we == work_entries_from(dict_get(data, "work_entries", JArr(<< >>)))
             pm == project_mappings_from(dict_get(data, "project_mappings", JObj(<< >>)))
         IN  IF truthy(la) /\ la.t # "str" THEN Raise("TypeError")
             ELSE IF truthy(la) /\ ~iso_valid(la.v) THEN Raise("ValueError")
             ELSE IF we.exc # "none" THEN we
             ELSE IF pm.exc # "none" THEN pm
             ELSE Return(
                 [current_ticket |-> json_to_opt(dict_get(data, "current_ticket", JNull)),
                  current_project |-> json_to_opt(dict_get(data, "current_project", JNull)),
                  current_details |-> json_to_opt(dict_get(data, "current_details", JNull)),
                  last_activity |-> IF truthy(la) THEN Some(fromisoformat(la.v)) ELSE None,
                  work_entries |-> we.val,
                  project_mappings |-> pm.val])

(***************************************************************************)
(* AppState methods.                                                       *)
(***************************************************************************)
has_project(pm, project) == \E i \in 1..Len(pm) : pm[i].k = project
project_index(pm, project) == CHOOSE i \in 1..Len(pm) : pm[i].k = project

\* for project, mapping in items: for pattern in patterns: if ...: return project
RECURSIVE detect_from(_, _, _)
detect_from(pm, i, ticket) ==
    IF i > Len(pm) THEN None
    ELSE IF \E j \in 1..Len(pm[i].v.ticket_patterns) :
                str_in(lower(pm[i].v.ticket_patterns[j]), lower(ticket))
         THEN Some(pm[i].k)
         ELSE detect_from(pm, i + 1, ticket)

\* the same scan comparing without .lower()
RECURSIVE detect_exact_from(_, _, _)
detect_exact_from(pm, i, ticket) ==
    IF i > Len(pm) THEN None
    ELSE IF \E j \in 1..Len(pm[i].v.ticket_patterns) :
                str_in(pm[i].v.ticket_patterns[j], ticket)
         THEN Some(pm[i].k)
         ELSE detect_exact_from(pm, i + 1, ticket)

auto_detect_project_exact(s, ticket) == detect_exact_from(s.project_mappings, 1, ticket)

auto_detect_project(s, ticket) == detect_from(s.project_mappings, 1, ticket)

\* add_work_entry appending the prefix without looking for it in the list
AppState_add_work_entry_unchecked(s, ticket, project, details, ts) ==
    LET entry == WorkEntry(ts, ticket, project, details)
        pm0 == s.project_mappings
        pm1 == IF has_project(pm0, project) THEN pm0
               ELSE Append(pm0, [k |-> project, v |-> ProjectMapping(project)])
        idx == project_index(pm1, project)
    IN  [s EXCEPT !.work_entries = Append(@, entry),
                  !.current_ticket = Some(ticket),
                  !.current_project = Some(project),
                  !.current_details = Some(details),
                  !.last_activity = Some(entry.timestamp),
                  !.project_mappings =
                      [pm1 EXCEPT ![idx].v.ticket_patterns = Append(@, ticket_prefix(ticket))]]

\* add_work_entry leaving last_activity as it was
AppState_add_work_entry_stale(s, ticket, project, details, ts) ==
    LET entry == WorkEntry(ts, ticket, project, details)
        pm0 == s.project_mappings
        pm1 == IF has_project(pm0, project) THEN pm0
               ELSE Append(pm0, [k |-> project, v |-> ProjectMapping(project)])
        idx == project_index(pm1, project)
        prefix == ticket_prefix(ticket)
        pm2 == IF list_in(prefix, pm1[idx].v.ticket_patterns) THEN pm1
               ELSE [pm1 EXCEPT ![idx].v.ticket_patterns = Append(@, prefix)]
    IN  [s EXCEPT !.work_entries = Append(@, entry),
                  !.current_ticket = Some(ticket),
                  !.current_project = Some(project),
                  !.current_details = Some(details),
                  !.project_mappings = pm2]

AppState_add_work_entry(s, ticket, project, details, ts) ==
    LET entry == WorkEntry(ts, ticket, project, details)
        pm0 == s.project_mappings
        pm1 == IF has_project(pm0, project) THEN pm0
               ELSE Append(pm0, [k |-> project, v |-> ProjectMapping(project)])
        idx == project_index(pm1, project)
        prefix == ticket_prefix(ticket)
        pm2 == IF list_in(prefix, pm1[idx].v.ticket_patterns) THEN pm1
               ELSE [pm1 EXCEPT ![idx].v.ticket_patterns = Append(@, prefix)]
    IN  [s EXCEPT !.work_entries = Append(@, entry),
                  !.current_ticket = Some(ticket),
                  !.current_project = Some(project),
                  !.current_details = Some(details),
                  !.last_activity = Some(entry.timestamp),
                  !.project_mappings = pm2]

(***************************************************************************)
(* DataManager: files, _save_data, _load_data.                             *)
(***************************************************************************)
NoFile == [t |-> "absent"]
Garbage == [t |-> "garbage"]
Partial == [t |-> "partial"]

\* json.dump(self.app_state.to_dict(), f, ...) written to the end and closed
json_dump(s) == [t |-> "text", json |-> AppState_to_dict(s)]

\* json.load(f)
json_load(f) == IF f.t = "text" THEN Return(f.json) ELSE Raise("JSONDecodeError")

\* What one run of _save_data can meet: no error, or an I/O error while writing.
SaveOutcomes == {"ok", "fail_write"}

\* _save_data that writes the staging file and never renames it
save_data_no_replace(s, df, tf, outcome) ==
    IF df # NoFile
    THEN IF outcome = "ok"
         THEN [data_file |-> df, tmp_file |-> json_dump(s), result |-> "ok",
               exc |-> "none"]
         ELSE [data_file |-> df, tmp_file |-> Partial, result |-> "failed",
               exc |-> "none"]
    ELSE IF outcome = "ok"
         THEN [data_file |-> json_dump(s), tmp_file |-> tf, result |-> "ok",
               exc |-> "none"]
         ELSE [data_file |-> Partial, tmp_file |-> tf, result |-> "failed",
               exc |-> "none"]

\* _save_data run to its end; every exception is caught and printed.
save_data(s, df, tf, outcome) ==
    IF df # NoFile
    THEN IF outcome = "ok"
         THEN [data_file |-> json_dump(s), tmp_file |-> NoFile, result |-> "ok",
               exc |-> "none"]
         ELSE [data_file |-> df, tmp_file |-> Partial, result |-> "failed",
               exc |-> "none"]
    ELSE IF outcome = "ok"
         THEN [data_file |-> json_dump(s), tmp_file |-> tf, result |-> "ok",
               exc |-> "none"]
         ELSE [data_file |-> Partial, tmp_file |-> tf, result |-> "failed",
               exc |-> "none"]

\* the exceptions _load_data catches
LoadCaught == {"JSONDecodeError", "KeyError", "ValueError"}

\* json.load followed by AppState.from_dict
parse_file(f) ==
    LET j == json_load(f)
    IN  IF j.exc # "none" THEN j ELSE AppState_from_dict(j.val)

\* _load_data that starts a default state without saving it when no file exists
load_data_no_persist(df, tf, bf, outcome) ==
    IF df # NoFile
    THEN LET r == parse_file(df)
         IN  IF r.exc = "none"
             THEN [app_state |-> r.val, data_file |-> df, tmp_file |-> tf,
                   backup_file |-> bf, result |-> "none", exc |-> "none"]
             ELSE IF r.exc \in LoadCaught
             THEN LET sv == save_data(AppState_default, NoFile, tf, outcome)
                  IN  [app_state |-> AppState_default, data_file |-> sv.data_file,
                       tmp_file |-> sv.tmp_file, backup_file |-> df,
                       result |-> sv.result, exc |-> sv.exc]
             ELSE [app_state |-> None, data_file |-> df, tmp_file |-> tf,
                   backup_file |-> bf, result |-> "none", exc |-> r.exc]
    ELSE [app_state |-> AppState_default, data_file |-> df, tmp_file |-> tf,
          backup_file |-> bf, result |-> "none", exc |-> "none"]

\* _load_data run to its end
load_data(df, tf, bf, outcome) ==
    IF df # NoFile
    THEN LET r == parse_file(df)
         IN  IF r.exc = "none"
             THEN [app_state |-> r.val, data_file |-> df, tmp_file |-> tf,
                   backup_file |-> bf, result |-> "none", exc |-> "none"]
             ELSE IF r.exc \in LoadCaught
             THEN LET sv == save_data(AppState_default, NoFile, tf, outcome)
                  IN  [app_state |-> AppState_default, data_file |-> sv.data_file,
                       tmp_file |-> sv.tmp_file, backup_file |-> df,
                       result |-> sv.result, exc |-> sv.exc]
             ELSE [app_state |-> None, data_file |-> df, tmp_file |-> tf,
                   backup_file |-> bf, result |-> "none", exc |-> r.exc]
    ELSE LET sv == save_data(AppState_default, df, tf, outcome)
         IN  [app_state |-> AppState_default, data_file |-> sv.data_file,
              tmp_file |-> sv.tmp_file, backup_file |-> bf,
              result |-> sv.result, exc |-> sv.exc]

(***************************************************************************)
(* cleanup_test_data.                                                      *)
(***************************************************************************)
test_patterns ==
    << <<"t","e","s","t">>, <<"d","e","m","o">>, <<"e","x","a","m","p","l","e">>, <<"s","a","m","p","l","e">>, <<"m","o","c","k">>, <<"f","a","k","e">>, <<"d","u","m","m","y">>,
       <<"a","d","d","e","d"," ","v","i","a"," ","s","t","a","t","u","s"," ","s","c","r","i","p","t">>,
       <<"a","d","d","e","d"," ","v","i","a"," ","s","c","r","i","p","t">>,
       <<"v","i","a"," ","s","c","r","i","p","t">> >>

\* pattern.lower() for each pattern
test_patterns_lower == [i \in 1..Len(test_patterns) |-> lower(test_patterns[i])]

\* any(pattern.lower() in text.lower() for pattern in test_patterns)
has_test_pattern(text) ==
    LET lt == lower(text)
    IN  \E i \in 1..Len(test_patterns) : str_in(test_patterns_lower[i], lt)

\* the entry test looking at ticket and project only
is_test_entry_no_details(e) ==
    LET lt == lower(e.ticket)
        lp == lower(e.project)
    IN  \E i \in 1..Len(test_patterns) :
            \/ str_in(test_patterns_lower[i], lt)
            \/ str_in(test_patterns_lower[i], lp)

is_test_entry(e) ==
    LET lt == lower(e.ticket)
        lp == lower(e.project)
        ld == lower(e.details)
    IN  \E i \in 1..Len(test_patterns) :
            \/ str_in(test_patterns_lower[i], lt)
            \/ str_in(test_patterns_lower[i], lp)
            \/ str_in(test_patterns_lower[i], ld)

\* value of (x or "") for an Optional[str]
or_empty(o) == IF o = None THEN << >> ELSE o[1]

is_test_current(s) ==
    /\ s.current_ticket # None
    /\ s.current_ticket[1] # << >>
    /\ LET lt == lower(s.current_ticket[1])
           lp == lower(or_empty(s.current_project))
       IN  \E i \in 1..Len(test_patterns) :
               \/ str_in(test_patterns_lower[i], lt)
               \/ str_in(test_patterns_lower[i], lp)

keep_entry(e) == ~is_test_entry(e)
keep_mapping(m) == ~has_test_pattern(m.k)

\* cleanup_test_data taking out one test entry, the first, per call
cleanup_state_first_only(s) ==
    LET hits == {i \in 1..Len(s.work_entries) : ~keep_entry(s.work_entries[i])}
        first == CHOOSE i \in hits : \A x \in hits : i <= x
        kept == IF hits = {} THEN s.work_entries
                ELSE SubSeq(s.work_entries, 1, first - 1)
                         \o SubSeq(s.work_entries, first + 1, Len(s.work_entries))
        s1 == [s EXCEPT !.work_entries = kept]
        s2 == IF is_test_current(s1)
              THEN [s1 EXCEPT !.current_ticket = None, !.current_project = None,
                              !.current_details = None, !.last_activity = None]
              ELSE s1
        s3 == [s2 EXCEPT !.project_mappings = SelectSeq(@, keep_mapping)]
    IN  [state |-> s3, removed_count |-> Len(s.work_entries) - Len(kept)]

\* the state cleanup_test_data leaves in memory and the count it returns
cleanup_state(s) ==
    LET kept == SelectSeq(s.work_entries, keep_entry)
        s1 == [s EXCEPT !.work_entries = kept]
        s2 == IF is_test_current(s1)
              THEN [s1 EXCEPT !.current_ticket = None, !.current_project = None,
                              !.current_details = None, !.last_activity = None]
              ELSE s1
        s3 == [s2 EXCEPT !.project_mappings = SelectSeq(@, keep_mapping)]
    IN  [state |-> s3, removed_count |-> Len(s.work_entries) - Len(kept)]

(***************************************************************************)
(* Inputs: the calls a caller makes, and the contents database.json may    *)
(* have when a process starts.                                             *)
(***************************************************************************)
T_BUG42 == <<"B","U","G","-","4","2">>
T_TASK1 == <<"T","A","S","K","-","1">>
T_bug7 == <<"b","u","g","7">>
P_Alpha == <<"A","l","p","h","a">>
P_Demo == <<"D","e","m","o">>
D_empty == << >>
D_mock == <<"m","o","c","k">>

\* add_work_entry(ticket, project, details) calls
AddCalls ==
    { <<T_BUG42, P_Alpha, D_empty>>, <<T_bug7, P_Demo, D_mock>>, <<T_TASK1, P_Demo, D_empty>> }

\* update_current_work(ticket, project, details) calls: every subset of the arguments
OptOf(S) == {None} \cup {Some(x) : x \in S}
UpdateCalls == OptOf({T_BUG42}) \X OptOf({P_Alpha}) \X OptOf({D_empty})

\* tickets asked of get_project_for_ticket
DetectTickets == {T_bug7, T_TASK1, <<"X","-","9">>}

\* [] : a JSON document that is not an object
Doc_not_object == [t |-> "text", json |-> JArr(<< >>)]
\* {} : an object with every key missing
Doc_empty_object == [t |-> "text", json |-> JObj(<< >>)]
\* {"work_entries": [{"ticket": "BUG-42", "project": "Alpha"}]}
Doc_entry_no_timestamp ==
    [t |-> "text", json |-> JObj([work_entries |->
        JArr(<< JObj([ticket |-> JStr(T_BUG42), project |-> JStr(P_Alpha)]) >>)])]
\* {"work_entries": [{"timestamp": "x", "ticket": "BUG-42", "project": "Alpha"}]}
Doc_bad_timestamp ==
    [t |-> "text", json |-> JObj([work_entries |->
        JArr(<< JObj([timestamp |-> JStr(<<"x">>), ticket |-> JStr(T_BUG42),
                      project |-> JStr(P_Alpha)]) >>)])]
\* {"work_entries": 5}
Doc_entries_not_list == [t |-> "text", json |-> JObj([work_entries |-> JNum(5)])]
\* {"project_mappings": []}
Doc_mappings_not_dict ==
    [t |-> "text", json |-> JObj([project_mappings |-> JArr(<< >>)])]

InitialFiles ==
    {NoFile, Garbage, Doc_not_object, Doc_empty_object, Doc_entry_no_timestamp,
     Doc_bad_timestamp, Doc_entries_not_list, Doc_mappings_not_dict}

\* a call: its arguments, what its save came to ("ok", "failed", "none" when it
\* did not save), its return value, and how many saves had failed in a row before it
NoCall ==
    [op |-> "none", ticket |-> None, project |-> None, details |-> None,
     save |-> "none", result |-> None, behind |-> 0]

Call(op, ticket, project, details, save, result) ==
    [op |-> op, ticket |-> ticket, project |-> project, details |-> details,
     save |-> save, result |-> result, behind |-> failures]

\* no process yet; database.json absent
Init ==
    /\ alive = FALSE
    /\ app_state = None
    /\ data_file = NoFile
    /\ tmp_file = NoFile
    /\ backup_file = NoFile
    /\ now = 0
    /\ raised = "none"
    /\ last_call = NoCall
    /\ failures = 0
    /\ pc = "idle"
    /\ reports = << >>
    /\ lock_file = [t |-> "absent"]
    /\ proc = [p \in Procs |-> NotStarted]

\* the outcomes a save may have now: at most MaxFailures saves in a row fail
Outcomes == IF failures < MaxFailures THEN SaveOutcomes ELSE {"ok"}
FailuresAfter(result) ==
    CASE result = "failed" -> failures + 1
      [] result = "ok" -> 0
      [] OTHER -> failures

(***************************************************************************)
(* Operations, each run to its end.                                        *)
(***************************************************************************)
\* DataManager.__init__: a process starts and loads the file
Start ==
    /\ ~alive
    /\ pc = "idle"
    /\ \E outcome \in Outcomes :
        LET r == load_data(data_file, tmp_file, backup_file, outcome)
        IN  /\ app_state' = r.app_state
            /\ alive' = (r.exc = "none")
            /\ data_file' = r.data_file
            /\ tmp_file' = r.tmp_file
            /\ backup_file' = r.backup_file
            /\ raised' = r.exc
            /\ last_call' = Call("load", None, None, None, r.result, None)
            /\ failures' = FailuresAfter(r.result)
    /\ UNCHANGED <<now, pc, reports, lock_file, proc>>

\* the process ends; its memory is gone, the files stay
Exit ==
    /\ alive
    /\ pc = "idle"
    /\ alive' = FALSE
    /\ app_state' = None
    /\ raised' = "none"
    /\ last_call' = Call("exit", None, None, None, "none", None)
    /\ UNCHANGED <<data_file, tmp_file, backup_file, now, failures, pc, reports,
                   lock_file, proc>>

\* what every mutating operation ends with: self._save_data()
Saved(s, op, ticket, project, details, result) ==
    \E outcome \in Outcomes :
        LET sv == save_data(s, data_file, tmp_file, outcome)
        IN  /\ app_state' = s
            /\ data_file' = sv.data_file
            /\ tmp_file' = sv.tmp_file
            /\ raised' = sv.exc
            /\ last_call' = Call(op, ticket, project, details, sv.result, result)
            /\ failures' = FailuresAfter(sv.result)
            /\ UNCHANGED <<alive, backup_file, pc, reports, lock_file, proc>>

\* datetime.now() reads a clock that has advanced since the last reading
add_work_entry(ticket, project, details) ==
    /\ alive
    /\ pc = "idle"
    /\ now < MaxTime
    /\ now' = now + 1
    /\ Saved(AppState_add_work_entry(app_state, ticket, project, details, now + 1),
             "add_work_entry", Some(ticket), Some(project), Some(details), None)

\* update_current_work assigning every argument, None included
update_current_overwrite(s, ticket, project, details) ==
    [s EXCEPT !.current_ticket = ticket,
              !.current_project = project,
              !.current_details = details]

\* the three assignments of update_current_work; an argument is None or <<value>>
update_current(s, ticket, project, details) ==
    [s EXCEPT !.current_ticket = IF ticket # None THEN Some(ticket[1]) ELSE @,
              !.current_project = IF project # None THEN Some(project[1]) ELSE @,
              !.current_details = IF details # None THEN Some(details[1]) ELSE @]

update_current_work(ticket, project, details) ==
    /\ alive
    /\ pc = "idle"
    /\ Saved(update_current(app_state, ticket, project, details),
             "update_current_work", ticket, project, details, None)
    /\ UNCHANGED now

\* stop_current_work that also empties the entry list
stop_current_drops_entries(s) ==
    [s EXCEPT !.current_ticket = None, !.current_project = None,
              !.current_details = None, !.work_entries = << >>]

stop_current(s) ==
    [s EXCEPT !.current_ticket = None, !.current_project = None,
              !.current_details = None]

stop_current_work ==
    /\ alive
    /\ pc = "idle"
    /\ Saved(stop_current(app_state), "stop_current_work", None, None, None, None)
    /\ UNCHANGED now

get_project_for_ticket(ticket) ==
    /\ alive
    /\ pc = "idle"
    /\ raised' = "none"
    /\ last_call' = Call("get_project_for_ticket", Some(ticket), None, None, "none",
                         auto_detect_project(app_state, ticket))
    /\ UNCHANGED <<alive, app_state, data_file, tmp_file, backup_file, now, failures, pc,
                   reports, lock_file, proc>>

cleanup_test_data ==
    /\ alive
    /\ pc = "idle"
    /\ LET c == cleanup_state(app_state)
       IN  IF c.removed_count > 0
           THEN Saved(c.state, "cleanup_test_data", None, None, None,
                      Some(c.removed_count))
           ELSE /\ app_state' = c.state
                /\ raised' = "none"
                /\ last_call' = Call("cleanup_test_data", None, None, None, "none",
                                     Some(c.removed_count))
                /\ UNCHANGED <<alive, data_file, tmp_file, backup_file, failures, pc,
                             reports, lock_file, proc>>
    /\ UNCHANGED now

Next ==
    \/ Start
    \/ \E c \in AddCalls : add_work_entry(c[1], c[2], c[3])
    \/ \E c \in UpdateCalls : update_current_work(c[1], c[2], c[3])
    \/ stop_current_work
    \/ cleanup_test_data

Spec == Init /\ [][Next]_vars

(***************************************************************************)
(* Queries: get_project_for_ticket over the mappings that entries build.   *)
(***************************************************************************)
NextDetect ==
    \/ Start
    \/ \E c \in AddCalls : add_work_entry(c[1], c[2], c[3])
    \/ \E t \in DetectTickets : get_project_for_ticket(t)
    \/ cleanup_test_data

SpecDetect == Init /\ [][NextDetect]_vars

(***************************************************************************)
(* The start of the daemon: main() of tray_daemon.py runs                  *)
(* cleanup_stale_locks and then creates /tmp/weekly-report-tray.lock with  *)
(* open(lock_file, 'x'). Several runs proceed at once, one system call at  *)
(* a time. The process of run p has the pid p; pid 0 is the one of a       *)
(* process that is dead. The two other lock names cleanup_stale_locks      *)
(* looks at are created by nothing in the repository and are absent.       *)
(***************************************************************************)
\* a lock file: who created it, and the pid written in it (nothing yet
\* between the open and the close of the file)
Lock(owner, content) == [t |-> "lock", owner |-> owner, content |-> content]

\* the lock a daemon that was killed has left
StaleLock == Lock(0, <<0>>)

\* the instruction run p is at
At(p, where) == proc[p].pc = where

Goto(p, where) == proc' = [proc EXCEPT ![p].pc = where]

\* os.kill(pid, 0) finds a process: a run that has begun and has not returned
running(pid) == pid \in Procs /\ proc[pid].pc \notin {"idle", "refused", "exited"}

StepOf(p) ==
    UNCHANGED <<alive, app_state, data_file, tmp_file, backup_file, now, raised, last_call,
                failures, pc, reports>>

\* if os.path.exists(lock_file)
lock_exists(p) ==
    /\ At(p, "idle")
    /\ Goto(p, IF lock_file.t = "lock" THEN "read" ELSE "create")
    /\ UNCHANGED lock_file
    /\ StepOf(p)

\* with open(lock_file, 'r') as f: pid = int(f.read().strip())
lock_read(p) ==
    /\ At(p, "read")
    /\ IF lock_file.t # "lock" THEN Goto(p, "remove_invalid")
       ELSE IF lock_file.content = << >> THEN Goto(p, "remove_invalid")
       ELSE proc' = [proc EXCEPT ![p].pc = "kill", ![p].pid = lock_file.content]
    /\ UNCHANGED lock_file
    /\ StepOf(p)

\* os.kill(pid, 0): return False when the process exists
lock_kill(p) ==
    /\ At(p, "kill")
    /\ Goto(p, IF running(proc[p].pid[1]) THEN "refused" ELSE "remove_stale")
    /\ UNCHANGED lock_file
    /\ StepOf(p)

\* except ProcessLookupError: os.remove(lock_file); a FileNotFoundError it
\* raises is caught by the outer handler, which removes again
lock_remove_stale(p) ==
    /\ At(p, "remove_stale")
    /\ IF lock_file.t = "lock"
       THEN /\ lock_file' = [t |-> "absent"]
            /\ Goto(p, "create")
       ELSE /\ UNCHANGED lock_file
            /\ Goto(p, "remove_invalid")
    /\ StepOf(p)

\* except (ValueError, FileNotFoundError): os.remove(lock_file), a
\* FileNotFoundError passed over
lock_remove_invalid(p) ==
    /\ At(p, "remove_invalid")
    /\ lock_file' = [t |-> "absent"]
    /\ Goto(p, "create")
    /\ StepOf(p)

\* open(lock_file, 'x'): FileExistsError makes main return 1
lock_create(p) ==
    /\ At(p, "create")
    /\ IF lock_file.t = "lock"
       THEN /\ UNCHANGED lock_file
            /\ Goto(p, "refused")
       ELSE /\ lock_file' = Lock(p, << >>)
            /\ Goto(p, "write")
    /\ StepOf(p)

\* f.write(str(os.getpid())) and the close of the file, which writes into the
\* file that was opened, removed or not; then TrayWeeklyReportDaemon() is made
lock_write(p) ==
    /\ At(p, "write")
    /\ lock_file' = IF lock_file.t = "lock" /\ lock_file.owner = p
                    THEN Lock(p, <<p>>) ELSE lock_file
    /\ Goto(p, "daemon")
    /\ StepOf(p)

\* cleanup_lock_file at exit: if os.path.exists(lock_file): os.remove(lock_file)
daemon_quit(p) ==
    /\ At(p, "daemon")
    /\ lock_file' = [t |-> "absent"]
    /\ Goto(p, "exited")
    /\ StepOf(p)

InitLock ==
    /\ alive = FALSE
    /\ app_state = None
    /\ data_file = NoFile
    /\ tmp_file = NoFile
    /\ backup_file = NoFile
    /\ now = 0
    /\ raised = "none"
    /\ last_call = NoCall
    /\ failures = 0
    /\ pc = "idle"
    /\ reports = << >>
    /\ lock_file \in {[t |-> "absent"], StaleLock}
    /\ proc = [p \in Procs |-> NotStarted]

NextLock ==
    \E p \in Procs :
        \/ lock_exists(p)
        \/ lock_read(p)
        \/ lock_kill(p)
        \/ lock_remove_stale(p)
        \/ lock_remove_invalid(p)
        \/ lock_create(p)
        \/ lock_write(p)
        \/ daemon_quit(p)

SpecLock == InitLock /\ [][NextLock]_vars

(***************************************************************************)
(* The handlers of the daemon that create entries: the work entry dialog   *)
(* and the Continue action of the notification.                            *)
(***************************************************************************)
\* str.strip(), the blank being the white space of the model
RECURSIVE lstrip(_)
lstrip(s) == IF s # << >> /\ s[1] = " " THEN lstrip(Tail(s)) ELSE s

RECURSIVE rstrip(_)
rstrip(s) == IF s # << >> /\ s[Len(s)] = " " THEN rstrip(SubSeq(s, 1, Len(s) - 1)) ELSE s

strip(s) == rstrip(lstrip(s))

\* the dialog answering OK with whatever its fields hold
dialog_result_unchecked(ticket_text, project_text, details_text, showing_placeholder) ==
    Some([ticket |-> strip(ticket_text), project |-> strip(project_text),
          details |-> IF showing_placeholder THEN << >> ELSE strip(details_text)])

\* WorkEntryDialog._show_and_wait on the response OK: the result handed to the
\* callback, None when the dialog shows its error and opens again
dialog_result(ticket_text, project_text, details_text, showing_placeholder) ==
    IF strip(ticket_text) # << >> /\ strip(project_text) # << >>
    THEN Some([ticket |-> strip(ticket_text), project |-> strip(project_text),
               details |-> IF showing_placeholder THEN << >> ELSE strip(details_text)])
    ELSE None

\* what the user may have typed: ticket, project, details, and whether the
\* details still show the placeholder
DialogInputs ==
    { <<T_BUG42, P_Alpha, D_empty, TRUE>>,
      <<<<" ","T","A","S","K","-","1">>, <<"D","e","m","o"," ">>, <<" ","m","o","c","k">>, FALSE>>,
      <<<< >>, P_Alpha, D_mock, FALSE>>,
      <<<<" "," ">>, P_Demo, D_empty, TRUE>>,
      <<T_TASK1, << >>, D_empty, TRUE>>,
      <<T_BUG42, <<" ">>, D_mock, FALSE>>,
      <<<< >>, << >>, D_empty, TRUE>> }

\* TrayWeeklyReportDaemon._on_add_work with the dialog answered OK: the entry
\* is saved, or the dialog refuses and nothing is called
on_add_work(ticket_text, project_text, details_text, showing_placeholder) ==
    /\ alive
    /\ pc = "idle"
    /\ LET result == dialog_result(ticket_text, project_text, details_text,
                                   showing_placeholder)
       IN  IF result # None
           THEN /\ now < MaxTime
                /\ now' = now + 1
                /\ Saved(AppState_add_work_entry(app_state, result[1].ticket,
                                                 result[1].project, result[1].details,
                                                 now + 1),
                         "on_add_work", Some(ticket_text), Some(project_text),
                         Some(details_text), None)
           ELSE /\ raised' = "none"
                /\ last_call' = Call("on_add_work", Some(ticket_text), Some(project_text),
                                     Some(details_text), "none", None)
                /\ UNCHANGED <<alive, app_state, data_file, tmp_file, backup_file, now,
                               failures, pc, reports, lock_file, proc>>

\* a str or None that is true in a condition
truthy_opt(x) == x # None /\ x[1] # << >>

\* TrayWeeklyReportDaemon._on_continue_work: logs the work in progress again,
\* or opens the dialog when there is none
on_continue_work ==
    /\ alive
    /\ pc = "idle"
    /\ IF truthy_opt(app_state.current_ticket) /\ truthy_opt(app_state.current_project)
       THEN /\ now < MaxTime
            /\ now' = now + 1
            /\ Saved(AppState_add_work_entry(app_state, app_state.current_ticket[1],
                                             app_state.current_project[1],
                                             IF truthy_opt(app_state.current_details)
                                             THEN app_state.current_details[1] ELSE << >>,
                                             now + 1),
                     "on_continue_work", None, None, None, None)
       ELSE /\ raised' = "none"
            /\ last_call' = Call("on_continue_work", None, None, None, "none", None)
            /\ UNCHANGED <<alive, app_state, data_file, tmp_file, backup_file, now,
                           failures, pc, reports, lock_file, proc>>

NextDialog ==
    \/ Start
    \/ Exit
    \/ \E c \in DialogInputs : on_add_work(c[1], c[2], c[3], c[4])
    \/ on_continue_work
    \/ stop_current_work

SpecDialog == Init /\ [][NextDialog]_vars

(***************************************************************************)
(* The status script beside the daemon: check_status.py add and cleanup    *)
(* each start an interpreter that builds its own DataManager on the same   *)
(* database.json, does one operation and ends.                             *)
(***************************************************************************)
T_TEST123 == <<"T","E","S","T","-","1","2","3">>
P_TestProject == <<"T","e","s","t"," ","P","r","o","j","e","c","t">>
D_sample ==
    <<"S","a","m","p","l","e"," ","e","n","t","r","y"," ">> \o
    <<"a","d","d","e","d"," ","v","i","a"," ","s","c","r","i","p","t">>

\* the outcomes the save after a load may have
OutcomesAfter(result) == IF FailuresAfter(result) < MaxFailures THEN SaveOutcomes ELSE {"ok"}

\* a run of a script begins: DataManager() loads the file into a state of its
\* own; the memory of the daemon is not touched
ScriptLoaded(outcome) == load_data(data_file, tmp_file, backup_file, outcome)

\* the run ends without a save after its load
ScriptEnds(op, r, result) ==
    /\ data_file' = r.data_file
    /\ tmp_file' = r.tmp_file
    /\ backup_file' = r.backup_file
    /\ raised' = "none"
    /\ last_call' = Call(op, None, None, None, r.result, result)
    /\ failures' = FailuresAfter(r.result)
    /\ UNCHANGED <<alive, app_state, pc, reports, lock_file, proc>>

\* the run saves the state s it made of the loaded one, and ends
ScriptSaves(op, r, s, result) ==
    \E outcome \in OutcomesAfter(r.result) :
        LET sv == save_data(s, r.data_file, r.tmp_file, outcome)
        IN  /\ data_file' = sv.data_file
            /\ tmp_file' = sv.tmp_file
            /\ backup_file' = r.backup_file
            /\ raised' = "none"
            /\ last_call' = Call(op, None, None, None, sv.result, result)
            /\ failures' = IF sv.result = "failed" THEN FailuresAfter(r.result) + 1 ELSE 0
            /\ UNCHANGED <<alive, app_state, pc, reports, lock_file, proc>>

\* check_status.py add: dm = DataManager(); dm.add_work_entry("TEST-123", ...)
add_sample_work ==
    /\ pc = "idle"
    /\ now < MaxTime
    /\ now' = now + 1
    /\ \E outcome \in Outcomes :
        LET r == ScriptLoaded(outcome)
        IN  IF r.exc # "none"
            THEN ScriptEnds("add_sample_work", r, None)
            ELSE ScriptSaves("add_sample_work", r,
                             AppState_add_work_entry(r.app_state, T_TEST123, P_TestProject,
                                                     D_sample, now + 1),
                             None)

\* check_status.py cleanup: dm = DataManager(); dm.cleanup_test_data()
script_cleanup_test_data ==
    /\ pc = "idle"
    /\ \E outcome \in Outcomes :
        LET r == ScriptLoaded(outcome)
        IN  IF r.exc # "none"
            THEN ScriptEnds("script_cleanup_test_data", r, None)
            ELSE IF cleanup_state(r.app_state).removed_count > 0
            THEN ScriptSaves("script_cleanup_test_data", r, cleanup_state(r.app_state).state,
                             Some(cleanup_state(r.app_state).removed_count))
            ELSE ScriptEnds("script_cleanup_test_data", r,
                            Some(cleanup_state(r.app_state).removed_count))
    /\ UNCHANGED now

SharedAddCalls == { <<T_BUG42, P_Alpha, D_empty>> }

NextShared ==
    \/ Start
    \/ \E c \in SharedAddCalls : add_work_entry(c[1], c[2], c[3])
    \/ stop_current_work
    \/ add_sample_work
    \/ script_cleanup_test_data

SpecShared == Init /\ [][NextShared]_vars

(***************************************************************************)
(* Entries whose ticket starts with the dash: "-1" is a ticket the dialog  *)
(* accepts, it is not empty.                                               *)
(***************************************************************************)
T_dash1 == <<"-","1">>

PrefixAddCalls ==
    { <<T_dash1, P_Alpha, D_empty>>, <<T_BUG42, P_Demo, D_empty>>, <<T_TASK1, P_Demo, D_mock>> }

NextPrefix ==
    \/ Start
    \/ \E c \in PrefixAddCalls : add_work_entry(c[1], c[2], c[3])
    \/ \E t \in DetectTickets : get_project_for_ticket(t)

SpecPrefix == Init /\ [][NextPrefix]_vars


(***************************************************************************)
(* Start-up over whatever database.json holds, and restarts.               *)
(***************************************************************************)
InitLoad ==
    /\ alive = FALSE
    /\ app_state = None
    /\ data_file \in InitialFiles
    /\ tmp_file = NoFile
    /\ backup_file = NoFile
    /\ now = 0
    /\ raised = "none"
    /\ last_call = NoCall
    /\ failures = 0
    /\ pc = "idle"
    /\ reports = << >>
    /\ lock_file = [t |-> "absent"]
    /\ proc = [p \in Procs |-> NotStarted]

NextLoad ==
    \/ Start
    \/ Exit
    \/ \E c \in AddCalls : add_work_entry(c[1], c[2], c[3])
    \/ stop_current_work

SpecLoad == InitLoad /\ [][NextLoad]_vars

(***************************************************************************)
(* _save_data and _load_data step by step: each file operation is a step,  *)
(* and the process may be killed between any two of them. What a reader of *)
(* database.json observes at any moment is data_file.                      *)
(***************************************************************************)
\* _load_data up to its call of _save_data
BeginLoad ==
    /\ ~alive
    /\ pc = "idle"
    /\ IF data_file # NoFile
       THEN LET r == parse_file(data_file)
            IN  IF r.exc = "none"
                THEN /\ app_state' = r.val
                     /\ alive' = TRUE
                     /\ pc' = "idle"
                     /\ raised' = "none"
                     /\ UNCHANGED <<data_file, backup_file>>
                ELSE IF r.exc \in LoadCaught
                THEN /\ app_state' = AppState_default
                     /\ alive' = TRUE
                     /\ pc' = "save"
                     /\ raised' = "none"
                     /\ backup_file' = data_file
                     /\ data_file' = NoFile
                ELSE /\ app_state' = None
                     /\ alive' = FALSE
                     /\ pc' = "idle"
                     /\ raised' = r.exc
                     /\ UNCHANGED <<data_file, backup_file>>
       ELSE /\ app_state' = AppState_default
            /\ alive' = TRUE
            /\ pc' = "save"
            /\ raised' = "none"
            /\ UNCHANGED <<data_file, backup_file>>
    /\ last_call' = Call("load", None, None, None, "none", None)
    /\ UNCHANGED <<tmp_file, now, failures, reports, lock_file, proc>>

\* add_work_entry up to its call of _save_data
BeginAdd(ticket, project, details) ==
    /\ alive
    /\ pc = "idle"
    /\ now < MaxTime
    /\ now' = now + 1
    /\ app_state' = AppState_add_work_entry(app_state, ticket, project, details, now + 1)
    /\ pc' = "save"
    /\ raised' = "none"
    /\ last_call' = Call("add_work_entry", Some(ticket), Some(project), Some(details),
                         "none", None)
    /\ UNCHANGED <<alive, data_file, tmp_file, backup_file, failures, reports, lock_file, proc>>

\* stop_current_work up to its call of _save_data
BeginStop ==
    /\ alive
    /\ pc = "idle"
    /\ app_state' = stop_current(app_state)
    /\ pc' = "save"
    /\ raised' = "none"
    /\ last_call' = Call("stop_current_work", None, None, None, "none", None)
    /\ UNCHANGED <<alive, data_file, tmp_file, backup_file, now, failures, reports,
                   lock_file, proc>>

\* open(backup_file, 'w') if self.data_file.exists() else open(self.data_file, 'w')
SaveOpen ==
    /\ pc = "save"
    /\ IF data_file # NoFile
       THEN /\ tmp_file' = Partial
            /\ pc' = "tmp_open"
            /\ UNCHANGED data_file
       ELSE /\ data_file' = Partial
            /\ pc' = "direct_open"
            /\ UNCHANGED tmp_file
    /\ UNCHANGED <<alive, app_state, backup_file, now, raised, last_call, failures,
                 reports, lock_file, proc>>

\* json.dump(...) and the close at the end of the with block
SaveWrite ==
    /\ \/ /\ pc = "tmp_open"
          /\ tmp_file' = json_dump(app_state)
          /\ pc' = "tmp_closed"
          /\ UNCHANGED <<data_file, last_call, failures>>
       \/ /\ pc = "direct_open"
          /\ data_file' = json_dump(app_state)
          /\ pc' = "idle"
          /\ last_call' = [last_call EXCEPT !.save = "ok"]
          /\ failures' = 0
          /\ UNCHANGED tmp_file
    /\ UNCHANGED <<alive, app_state, backup_file, now, raised, reports, lock_file, proc>>

\* backup_file.replace(self.data_file)
SaveReplace ==
    /\ pc = "tmp_closed"
    /\ data_file' = tmp_file
    /\ tmp_file' = NoFile
    /\ pc' = "idle"
    /\ last_call' = [last_call EXCEPT !.save = "ok"]
    /\ failures' = 0
    /\ UNCHANGED <<alive, app_state, backup_file, now, raised, reports, lock_file, proc>>

\* an I/O error while the file is being written: except Exception prints it
SaveError ==
    /\ pc \in {"tmp_open", "direct_open"}
    /\ failures < MaxFailures
    /\ pc' = "idle"
    /\ last_call' = [last_call EXCEPT !.save = "failed"]
    /\ failures' = failures + 1
    /\ UNCHANGED <<alive, app_state, data_file, tmp_file, backup_file, now, raised,
                 reports, lock_file, proc>>

\* the process is killed; its memory is gone, the files stay as they are
Crash ==
    /\ alive
    /\ alive' = FALSE
    /\ app_state' = None
    /\ pc' = "idle"
    /\ raised' = "none"
    /\ last_call' = Call("exit", None, None, None, "none", None)
    /\ UNCHANGED <<data_file, tmp_file, backup_file, now, failures, reports, lock_file, proc>>

NextSave ==
    \/ BeginLoad
    \/ \E c \in AddCalls : BeginAdd(c[1], c[2], c[3])
    \/ BeginStop
    \/ SaveOpen
    \/ SaveWrite
    \/ SaveReplace
    \/ SaveError
    \/ Crash

SpecSave == InitLoad /\ [][NextSave]_vars

(***************************************************************************)
(* cleanup_test_data over entries whose marker sits in the ticket, in the  *)
(* project or in the details only, on top of what an earlier process left  *)
(* in database.json.                                                       *)
(***************************************************************************)
T_TEST1 == <<"T","E","S","T","-","1">>

\* add_work_entry calls: marker in the ticket, in the details, in the project, nowhere
CleanupAddCalls ==
    { <<T_TEST1, P_Alpha, D_empty>>, <<T_BUG42, P_Alpha, D_mock>>,
      <<T_TASK1, P_Demo, D_empty>>, <<T_BUG42, P_Alpha, D_empty>> }

\* update_current_work(ticket="TEST-1", project="Alpha")
CleanupUpdateCalls == { <<Some(T_TEST1), Some(P_Alpha), None>> }

\* the state an earlier process saved: TASK-1 then TEST-1, both for Alpha
StoredState ==
    AppState_add_work_entry(
        AppState_add_work_entry(AppState_default, T_TASK1, P_Alpha, D_empty, 0),
        T_TEST1, P_Alpha, D_empty, 0)

Doc_stored == json_dump(StoredState)

InitCleanup ==
    /\ alive = FALSE
    /\ app_state = None
    /\ data_file \in {NoFile, Doc_stored}
    /\ tmp_file = NoFile
    /\ backup_file = NoFile
    /\ now = 0
    /\ raised = "none"
    /\ last_call = NoCall
    /\ failures = 0
    /\ pc = "idle"
    /\ reports = << >>
    /\ lock_file = [t |-> "absent"]
    /\ proc = [p \in Procs |-> NotStarted]

NextCleanup ==
    \/ Start
    \/ \E c \in CleanupAddCalls : add_work_entry(c[1], c[2], c[3])
    \/ \E c \in CleanupUpdateCalls : update_current_work(c[1], c[2], c[3])
    \/ cleanup_test_data

SpecCleanup == InitCleanup /\ [][NextCleanup]_vars

(***************************************************************************)
(* Weeks: get_current_week_entries, get_week_entries_with_offset and the   *)
(* weekly summary.                                                         *)
(***************************************************************************)
\* datetime.date(): the day a clock reading falls on
date_of(ts) == ts \div 2

\* date.weekday(): 0 is Monday, 6 is Sunday
weekday(d) == d % 7

\* today - timedelta(days=today.weekday())
week_start_of(d) == d - weekday(d)

\* a week that runs to the Monday after it
week_end_next_monday(start) == start + 7

\* week_start + timedelta(days=6)
week_end_of(start) == start + 6

\* current_week_start + timedelta(weeks=week_offset)
target_week_start(d, week_offset) == week_start_of(d) + 7 * week_offset

\* [entry for entry in entries if first <= entry.timestamp.date() <= last]
entries_between(entries, first, last) ==
    SelectSeq(entries, LAMBDA e : first <= date_of(e.timestamp) /\ date_of(e.timestamp) <= last)

\* AppState.get_current_week_entries with date.today() = d
AppState_get_current_week_entries(s, d) ==
    entries_between(s.work_entries, week_start_of(d), week_end_of(week_start_of(d)))

\* AppState.get_week_entries_with_offset with date.today() = d
AppState_get_week_entries_with_offset(s, d, week_offset) ==
    entries_between(s.work_entries, target_week_start(d, week_offset),
                    week_end_of(target_week_start(d, week_offset)))

\* sum(entry.duration for entry in entries) taking every entry for an hour
total_duration_default(entries) == Len(entries) * DefaultDuration

\* sum(entry.duration for entry in entries)
RECURSIVE total_duration(_)
total_duration(entries) ==
    IF entries = << >> THEN 0
    ELSE entries[1].duration + total_duration(Tail(entries))

\* the keys of a dict filled in the order of xs: each value once, first seen first
RECURSIVE first_seen(_)
first_seen(xs) ==
    IF xs = << >> THEN << >>
    ELSE LET r == first_seen(SubSeq(xs, 1, Len(xs) - 1))
         IN  IF list_in(xs[Len(xs)], r) THEN r ELSE Append(r, xs[Len(xs)])

projects_of(entries) == first_seen([i \in 1..Len(entries) |-> entries[i].project])
tickets_of(entries) == first_seen([i \in 1..Len(entries) |-> entries[i].ticket])
of_project(entries, project) == SelectSeq(entries, LAMBDA e : e.project = project)
of_ticket(entries, ticket) == SelectSeq(entries, LAMBDA e : e.ticket = ticket)

\* the details of the entries that have some, one per entry
details_of(entries) ==
    LET with == SelectSeq(entries, LAMBDA e : e.details # << >>)
    IN  [i \in 1..Len(with) |-> with[i].details]

\* DataManager.get_current_week_summary with date.today() = d; the tickets of a
\* project come from list(set(...)), whose order is not fixed: they are a set
summary_of(entries) ==
    LET names == projects_of(entries)
    IN  [total_time |-> total_duration(entries),
         projects |->
             [i \in 1..Len(names) |->
                 [k |-> names[i],
                  v |-> [tickets |-> {e.ticket : e \in
                                        {of_project(entries, names[i])[j] :
                                           j \in 1..Len(of_project(entries, names[i]))}},
                         time |-> total_duration(of_project(entries, names[i])),
                         details |-> details_of(of_project(entries, names[i]))]]],
         entries_count |-> Len(entries)]

DataManager_get_current_week_summary(s, d) ==
    summary_of(AppState_get_current_week_entries(s, d))

(***************************************************************************)
(* ReportGenerator. The text of a report is kept as the tree of its parts, *)
(* in the order they are written; every number is kept as the characters   *)
(* that are printed for it.                                                *)
(***************************************************************************)
\* the characters of the model in code point order
CharOrder == <<" ", "-">> \o DigitChars \o UpperChars \o LowerChars

ord(c) == CHOOSE i \in 1..Len(CharOrder) : CharOrder[i] = c

\* a < b for two str
RECURSIVE str_lt(_, _)
str_lt(a, b) ==
    IF b = << >> THEN FALSE
    ELSE IF a = << >> THEN TRUE
    ELSE IF a[1] = b[1] THEN str_lt(Tail(a), Tail(b))
    ELSE ord(a[1]) < ord(b[1])

\* sorted(S) for a collection of distinct str
RECURSIVE sorted(_)
sorted(S) ==
    IF S = {} THEN << >>
    ELSE LET m == CHOOSE x \in S : \A y \in S \ {x} : str_lt(x, y)
         IN  <<m>> \o sorted(S \ {m})

\* str(n) for n >= 0
RECURSIVE decimal(_)
decimal(n) ==
    IF n < 10 THEN <<DigitChars[n + 1]>>
    ELSE decimal(n \div 10) \o <<DigitChars[(n % 10) + 1]>>

\* f"{minutes / 60:.1f}": the nearest tenth of an hour, a tie going to the even
\* tenth. Exact for the durations of the model, all multiples of a quarter of
\* an hour, for which minutes / 60 is a binary fraction.
format_hours(minutes) ==
    LET q == (minutes * 10) \div 60
        r == (minutes * 10) % 60
        tenths == IF r > 30 \/ (r = 30 /\ q % 2 = 1) THEN q + 1 ELSE q
    IN  decimal(tenths \div 10) \o <<".">> \o <<DigitChars[(tenths % 10) + 1]>>

\* _group_entries_by_project: a dict in first-seen project order
group_entries_by_project(entries) ==
    LET names == projects_of(entries)
    IN  [i \in 1..Len(names) |->
            LET mine == of_project(entries, names[i])
            IN  [k |-> names[i],
                 v |-> [tickets |-> {mine[j].ticket : j \in 1..Len(mine)},
                        total_time |-> total_duration(mine),
                        entries |-> mine,
                        details |-> first_seen(details_of(mine))]]]

\* ticket_groups of _create_project_section: a dict in first-seen ticket order
ticket_groups(project_entries) ==
    LET names == tickets_of(project_entries)
    IN  [i \in 1..Len(names) |->
            LET mine == of_ticket(project_entries, names[i])
            IN  [k |-> names[i],
                 v |-> [entries |-> mine,
                        total_time |-> total_duration(mine),
                        details |-> {details_of(mine)[j] : j \in 1..Len(details_of(mine))}]]]

group_of(groups, key) == groups[CHOOSE i \in 1..Len(groups) : groups[i].k = key].v

\* the ticket subsections in first-seen order instead of sorted order
ticket_order_first_seen(groups) == [i \in 1..Len(groups) |-> groups[i].k]

\* for ticket, ticket_data in sorted(ticket_groups.items())
ticket_order(groups) == sorted({groups[i].k : i \in 1..Len(groups)})

\* _create_project_section
create_project_section(project_name, project_data) ==
    LET groups == ticket_groups(project_data.entries)
        order == ticket_order(groups)
    IN  [name |-> project_name,
         total_time |-> format_hours(project_data.total_time),
         tickets |->
             [i \in 1..Len(order) |->
                 LET g == group_of(groups, order[i])
                 IN  [ticket |-> order[i],
                      time_spent |-> format_hours(g.total_time),
                      sessions |-> decimal(Len(g.entries)),
                      activities |-> sorted(g.details)]]]

\* the calendar of the model: day 0 is Monday 2025-08-25 and the days run to
\* 2025-09-30
year_of(d) == 2025
month_of(d) == IF d <= 6 THEN 8 ELSE 9
day_of_month(d) == IF d <= 6 THEN 25 + d ELSE d - 6

\* the date of a year, a month and a day of the month; ValueError is None
date_from_ymd(y, m, dd) ==
    IF y = 2025 /\ m = 8 /\ dd >= 25 /\ dd <= 31 THEN Some(dd - 25)
    ELSE IF y = 2025 /\ m = 9 /\ dd >= 1 /\ dd <= 30 THEN Some(dd + 6)
    ELSE None

two_digits(n) == <<DigitChars[((n \div 10) % 10) + 1], DigitChars[(n % 10) + 1]>>
four_digits(n) == two_digits(n \div 100) \o two_digits(n % 100)

\* strftime('%Y%m%d'), strftime('%m/%d/%Y') and strftime('%m/%d')
strftime_Ymd(d) == four_digits(year_of(d)) \o two_digits(month_of(d)) \o two_digits(day_of_month(d))
\* the day before the month: %d/%m/%Y
strftime_dmY(d) ==
    two_digits(day_of_month(d)) \o <<"/">> \o two_digits(month_of(d)) \o <<"/">>
        \o four_digits(year_of(d))

strftime_mdY(d) ==
    two_digits(month_of(d)) \o <<"/">> \o two_digits(day_of_month(d)) \o <<"/">>
        \o four_digits(year_of(d))
strftime_md(d) == two_digits(month_of(d)) \o <<"/">> \o two_digits(day_of_month(d))

\* int(s) for a str of digits
RECURSIVE number_of(_)
number_of(s) ==
    IF s = << >> THEN 0
    ELSE 10 * number_of(SubSeq(s, 1, Len(s) - 1)) + digit_value(s[Len(s)])

\* datetime.strptime(s, "%Y%m%d").date() for a field of eight characters;
\* ValueError is None
strptime_Ymd(s) ==
    IF Len(s) # 8 \/ \E i \in 1..Len(s) : ~is_digit(s[i]) THEN None
    ELSE date_from_ymd(number_of(SubSeq(s, 1, 4)), number_of(SubSeq(s, 5, 6)),
                       number_of(SubSeq(s, 7, 8)))

days_en == <<"Monday", "Tuesday", "Wednesday", "Thursday", "Friday", "Saturday", "Sunday">>

\* f"{week_start.strftime('%m/%d/%Y')} - {week_end.strftime('%m/%d/%Y')}"
week_range(week_start, week_end) ==
    strftime_mdY(week_start) \o <<" ", "-", " ">> \o strftime_mdY(week_end)

\* sorted(daily_entries.keys())
RECURSIVE sorted_days(_)
sorted_days(S) ==
    IF S = {} THEN << >>
    ELSE LET m == CHOOSE x \in S : \A y \in S : x <= y
         IN  <<m>> \o sorted_days(S \ {m})

\* the entries of a day and of every day after it
on_day_or_after(entries, day) == SelectSeq(entries, LAMBDA e : date_of(e.timestamp) >= day)

\* daily_entries[day]
on_day(entries, day) == SelectSeq(entries, LAMBDA e : date_of(e.timestamp) = day)

\* the orders in which a set of str can be iterated: the hash of a str is salted
\* anew each time an interpreter starts, and the order follows the hashes
iteration_orders(S) ==
    {f \in [1..Cardinality(S) -> S] : \A i, j \in 1..Cardinality(S) : f[i] = f[j] => i = j}

\* iteration over a set of some of the str that seed orders
set_order(S, seed) == SelectSeq(seed, LAMBDA x : x \in S)

\* _create_daily_breakdown, the interpreter iterating its sets in the order seed
create_daily_breakdown(entries, seed) ==
    LET days == sorted_days({date_of(entries[i].timestamp) : i \in 1..Len(entries)})
    IN  [i \in 1..Len(days) |->
            LET day_entries == on_day(entries, days[i])
                day_projects == projects_of(day_entries)
            IN  [day_name |-> days_en[weekday(days[i]) + 1],
                 date |-> strftime_md(days[i]),
                 total |-> format_hours(total_duration(day_entries)),
                 projects |->
                     [j \in 1..Len(day_projects) |->
                         LET project_entries == of_project(day_entries, day_projects[j])
                         IN  [project |-> day_projects[j],
                              project_hours |-> format_hours(total_duration(project_entries)),
                              tickets |-> set_order({project_entries[n].ticket :
                                                       n \in 1..Len(project_entries)}, seed)]]]]

\* _create_report_content
create_report_content(entries, week_start, week_end, seed) ==
    LET projects_data == group_entries_by_project(entries)
    IN  [kind |-> "report",
         week |-> week_range(week_start, week_end),
         total_hours |-> format_hours(total_duration(entries)),
         total_entries |-> decimal(Len(entries)),
         projects |-> decimal(Len(projects_data)),
         sections |->
             [i \in 1..Len(projects_data) |->
                 create_project_section(projects_data[i].k, projects_data[i].v)],
         daily |-> create_daily_breakdown(entries, seed)]

\* the content _generate_empty_report writes
empty_report_content(week_start, week_end) ==
    [kind |-> "empty", week |-> week_range(week_start, week_end),
     summary |-> "No activities were recorded this week."]

report_prefix == <<"w","e","e","k","l","y","_","r","e","p","o","r","t","_">>

\* f"weekly_report_{week_start.strftime('%Y%m%d')}-{week_end.strftime('%Y%m%d')}.md"
report_name(week_start, week_end) ==
    report_prefix \o strftime_Ymd(week_start) \o <<"-">> \o strftime_Ymd(week_end)
        \o <<".", "m", "d">>

\* the entries generate_weekly_report selects with date.today() = d
selected_entries(s, d, week_offset) ==
    IF week_offset = 0
    THEN AppState_get_current_week_entries(s, d)
    ELSE AppState_get_week_entries_with_offset(s, d, week_offset)

\* generate_weekly_report: the file it writes. The entries are selected with
\* one reading d of date.today(), the week of the header and of the file name
\* is computed from a second reading today
weekly_report(s, d, today, seed, week_offset) ==
    LET entries == selected_entries(s, d, week_offset)
        start == target_week_start(today, week_offset)
        end == start + 6
    IN  [path |-> report_name(start, end),
         content |-> IF entries = << >> THEN empty_report_content(start, end)
                     ELSE create_report_content(entries, start, end, seed)]

\* open(report_path, 'w') ... f.write(content)
write_report(dir, path, content) ==
    [n \in (DOMAIN dir) \cup {path} |-> IF n = path THEN content ELSE dir[n]]

\* str.split("-")
RECURSIVE split_dash(_)
split_dash(s) ==
    IF ~(\E i \in 1..Len(s) : s[i] = "-") THEN <<s>>
    ELSE <<split_dash_first(s)>> \o split_dash(SubSeq(s, Len(split_dash_first(s)) + 2, Len(s)))

\* Path.stem of a name that ends in ".md"
stem(name) == SubSeq(name, 1, Len(name) - 3)

\* the week get_available_weeks reads from the name of one file, None for a
\* name it skips
week_of_file(name) ==
    LET filename == stem(name)
        date_part == SubSeq(filename, 15, Len(filename))
        parts == split_dash(date_part)
    IN  IF ~IsPrefixSeq(report_prefix, filename) THEN None
        ELSE IF ~(str_in(<<"-">>, date_part) /\ Len(date_part) = 17) THEN None
        ELSE IF Len(parts) # 2 THEN None
        ELSE IF strptime_Ymd(parts[1]) = None \/ strptime_Ymd(parts[2]) = None THEN None
        ELSE Some([display |-> week_range(strptime_Ymd(parts[1])[1], strptime_Ymd(parts[2])[1]),
                   file_path |-> name,
                   start_date |-> strptime_Ymd(parts[1])[1],
                   end_date |-> strptime_Ymd(parts[2])[1]])

\* the weeks with the oldest start date first
RECURSIVE sort_weeks_oldest_first(_)
sort_weeks_oldest_first(W) ==
    IF W = {} THEN << >>
    ELSE LET m == CHOOSE x \in W : \A y \in W : x.start_date <= y.start_date
         IN  <<m>> \o sort_weeks_oldest_first(W \ {m})

\* weeks.sort(key=lambda x: x['start_date'], reverse=True) for weeks of
\* different start dates
RECURSIVE sort_weeks(_)
sort_weeks(W) ==
    IF W = {} THEN << >>
    ELSE LET m == CHOOSE x \in W : \A y \in W : y.start_date <= x.start_date
         IN  <<m>> \o sort_weeks(W \ {m})

\* ReportGenerator.get_available_weeks over the files of the reports directory
ReportGenerator_get_available_weeks(dir) ==
    sort_weeks({week_of_file(n)[1] : n \in {n \in DOMAIN dir : week_of_file(n) # None}})

(***************************************************************************)
(* Weeks and reports over the entries of three weeks. Day 7 is the Monday  *)
(* and day 13 the Sunday of the week before the current one.               *)
(***************************************************************************)
MaxEntries == 3

P_Beta == <<"B","e","t","a">>
T_X1 == <<"X","-","1">>
T_Y1 == <<"Y","-","1">>
T_B2 == <<"B","-","2">>
D_plan == <<"p","l","a","n">>
D_fix == <<"f","i","x">>

\* an entry as WorkEntry.from_dict reads it: the duration is the stored one
StoredEntry(timestamp, ticket, project, details, duration) ==
    [WorkEntry(timestamp, ticket, project, details) EXCEPT !.duration = duration]

\* Sunday (day 6); Monday (day 7) morning and afternoon; Tuesday (day 8);
\* Sunday (day 13); the Monday after (day 14)
ReportEntries ==
    << StoredEntry(13, T_Y1, P_Beta, D_empty, 120),
       StoredEntry(14, T_X1, P_Alpha, D_plan, 60),
       StoredEntry(15, T_X1, P_Alpha, D_empty, 30),
       StoredEntry(16, T_Y1, P_Beta, D_empty, 120),
       StoredEntry(27, T_B2, P_Alpha, D_fix, 45),
       StoredEntry(28, T_Y1, P_Beta, D_fix, 120) >>

\* the elements of xs at the positions S, in the order of xs
Pick(xs, S) ==
    [i \in 1..Cardinality(S) |->
        xs[CHOOSE j \in S : Cardinality({k \in S : k < j}) = i - 1]]

\* the states database.json may hold: at most MaxEntries of the entries
ReportStates ==
    { [AppState_default EXCEPT !.work_entries = Pick(ReportEntries, S)] :
        S \in {S \in SUBSET (1..Len(ReportEntries)) : Cardinality(S) <= MaxEntries} }

\* Monday (day 14) morning and afternoon, Sunday (day 20), the Monday after (day 21)
ReportClocks == {28, 29, 41, 42}

WeekOffsets == {-2, -1, 0}

InitReport ==
    /\ alive = FALSE
    /\ app_state = None
    /\ data_file \in {json_dump(s) : s \in ReportStates}
    /\ tmp_file = NoFile
    /\ backup_file = NoFile
    /\ now \in ReportClocks
    /\ raised = "none"
    /\ last_call = NoCall
    /\ failures = 0
    /\ pc = "idle"
    /\ reports = << >>
    /\ lock_file = [t |-> "absent"]
    /\ proc = [p \in Procs |-> NotStarted]

\* a query: the week it is asked for and what it returns
Query(op, week_offset, result) ==
    [op |-> op, week_offset |-> week_offset, result |-> result]

Answered(op, week_offset, result) ==
    /\ alive
    /\ pc = "idle"
    /\ raised' = "none"
    /\ last_call' = Query(op, week_offset, result)
    /\ UNCHANGED <<alive, app_state, data_file, tmp_file, backup_file, now, failures, pc>>

get_current_week_entries ==
    /\ Answered("get_current_week_entries", 0,
                AppState_get_current_week_entries(app_state, date_of(now)))
    /\ UNCHANGED <<reports, lock_file, proc>>

get_week_entries_with_offset(week_offset) ==
    /\ Answered("get_week_entries_with_offset", week_offset,
                AppState_get_week_entries_with_offset(app_state, date_of(now), week_offset))
    /\ UNCHANGED <<reports, lock_file, proc>>

\* the weekly summary wanted for the week at week_offset: the summary the
\* DataManager has takes no offset and is always the one of the current week
get_current_week_summary(week_offset) ==
    /\ Answered("get_current_week_summary", week_offset,
                DataManager_get_current_week_summary(app_state, date_of(now)))
    /\ UNCHANGED <<reports, lock_file, proc>>

\* ReportGenerator.generate_weekly_report(state, week_offset): returns the path.
\* date.today() is read twice, and the clock may have moved on to its next
\* reading in between; the interpreter that runs it is the daemon or a run of
\* the status script, each with its own salt for the hashes
generate_weekly_report(week_offset) ==
    /\ alive
    /\ pc = "idle"
    /\ \E later \in {t \in ReportClocks : now <= t /\ t <= now + 1} :
       \E seed \in iteration_orders(
                       {e.ticket : e \in
                          {selected_entries(app_state, date_of(now), week_offset)[i] :
                             i \in 1..Len(selected_entries(app_state, date_of(now), week_offset))}}) :
           LET r == weekly_report(app_state, date_of(now), date_of(later), seed, week_offset)
           IN  /\ reports' = write_report(reports, r.path, r.content)
               /\ now' = later
               /\ last_call' = Query("generate_weekly_report", week_offset, r.path)
    /\ raised' = "none"
    /\ UNCHANGED <<alive, app_state, data_file, tmp_file, backup_file, failures, pc,
                   lock_file, proc>>

\* ReportGenerator.get_available_weeks
get_available_weeks ==
    /\ Answered("get_available_weeks", 0, ReportGenerator_get_available_weeks(reports))
    /\ UNCHANGED <<reports, lock_file, proc>>

NextReport ==
    \/ Start
    \/ get_current_week_entries
    \/ \E k \in WeekOffsets : get_week_entries_with_offset(k)
    \/ \E k \in WeekOffsets : get_current_week_summary(k)
    \/ \E k \in WeekOffsets : generate_weekly_report(k)
    \/ get_available_weeks

SpecReport == InitReport /\ [][NextReport]_vars

(***************************************************************************)
(* Reports over the entries of a Monday with two projects, one of them     *)
(* with two tickets, and of the Tuesday of the same week.                  *)
(***************************************************************************)
\* Monday (day 7): Beta, then Alpha with two tickets; Tuesday (day 8)
DailyEntries ==
    << StoredEntry(14, T_Y1, P_Beta, D_empty, 120),
       StoredEntry(14, T_X1, P_Alpha, D_plan, 60),
       StoredEntry(15, T_B2, P_Alpha, D_empty, 45),
       StoredEntry(16, T_X1, P_Alpha, D_fix, 30) >>

DailyStates ==
    { [AppState_default EXCEPT !.work_entries = Pick(DailyEntries, S)] :
        S \in {S \in SUBSET (1..Len(DailyEntries)) : Cardinality(S) <= MaxEntries} }

\* Monday (day 14) morning and Sunday (day 20) afternoon
DailyClocks == {28, 41}

InitDaily ==
    /\ alive = FALSE
    /\ app_state = None
    /\ data_file \in {json_dump(s) : s \in DailyStates}
    /\ tmp_file = NoFile
    /\ backup_file = NoFile
    /\ now \in DailyClocks
    /\ raised = "none"
    /\ last_call = NoCall
    /\ failures = 0
    /\ pc = "idle"
    /\ reports = << >>
    /\ lock_file = [t |-> "absent"]
    /\ proc = [p \in Procs |-> NotStarted]

SpecDaily == InitDaily /\ [][NextReport]_vars

(***************************************************************************)
(* Properties.                                                             *)
(***************************************************************************)
MutatingOps ==
    {"add_work_entry", "update_current_work", "stop_current_work", "cleanup_test_data"}

IsPrefixOf(a, b) == Len(a) <= Len(b) /\ SubSeq(b, 1, Len(a)) = a

LastEntry(s) == s.work_entries[Len(s.work_entries)]

\* C1: a reader of database.json, or a crash, at any point of any _save_data
\* (the first save with no file yet and the save after a quarantine included)
\* finds no file, the complete previous content or the complete new content:
\* never a partially written file.
C1_CanonicalNeverPartial == data_file # Partial

\* C2: a load of a file that exists and is unparseable or lacks the required
\* structure does not raise; the file becomes the .backup file and the
\* DataManager holds a fresh default AppState.
C2_CorruptLoadRecovers ==
    [][(/\ last_call'.op = "load"
        /\ data_file # NoFile
        /\ parse_file(data_file).exc # "none")
       => (/\ raised' = "none"
           /\ alive'
           /\ backup_file' = data_file
           /\ app_state' = AppState_default)]_vars

\* C3: a failing save does not raise to the caller of a mutating operation and
\* leaves the mutation in memory; a save that succeeds, also after failed ones,
\* leaves on disk the whole in-memory state, every earlier mutation included.
C3_FailedSaveKeepsMutation ==
    last_call.op \in MutatingOps =>
        /\ raised = "none"
        /\ (last_call.save = "failed" /\ last_call.op = "add_work_entry") =>
               /\ app_state.work_entries # << >>
               /\ LastEntry(app_state).ticket = last_call.ticket[1]
               /\ LastEntry(app_state).project = last_call.project[1]
               /\ app_state.current_ticket = last_call.ticket
        /\ (last_call.save = "failed" /\ last_call.op = "update_current_work") =>
               /\ last_call.ticket # None => app_state.current_ticket = last_call.ticket
               /\ last_call.project # None => app_state.current_project = last_call.project
               /\ last_call.details # None => app_state.current_details = last_call.details
        /\ (last_call.save = "failed" /\ last_call.op = "stop_current_work") =>
               app_state.current_ticket = None
        /\ (last_call.save = "failed" /\ last_call.op = "cleanup_test_data") =>
               \A i \in 1..Len(app_state.work_entries) :
                   ~is_test_entry(app_state.work_entries[i])
        /\ last_call.save = "ok" =>
               /\ data_file.t = "text"
               /\ parse_file(data_file) = Return(app_state)

\* a save succeeds right after a failed one, with two entries in memory
C3_Witness ==
    /\ last_call.op = "add_work_entry"
    /\ last_call.save = "ok"
    /\ last_call.behind > 0
    /\ Len(app_state.work_entries) = 2
    /\ parse_file(data_file) = Return(app_state)

\* C4: add_work_entry(ticket, project, details) appends exactly one entry
\* (ticket, project, details, duration 60, timestamp now) at the end of
\* work_entries, sets the three current_* fields to its arguments and sets
\* last_activity to the timestamp of the entry, the last of work_entries.
C4_AddAppendsEntry ==
    [][last_call'.op = "add_work_entry" =>
        LET e == [timestamp |-> now', ticket |-> last_call'.ticket[1],
                  project |-> last_call'.project[1],
                  details |-> last_call'.details[1], duration |-> 60]
        IN  /\ app_state'.work_entries = Append(app_state.work_entries, e)
            /\ app_state'.current_ticket = last_call'.ticket
            /\ app_state'.current_project = last_call'.project
            /\ app_state'.current_details = last_call'.details
            /\ app_state'.last_activity = Some(now')
            /\ app_state'.last_activity[1] = LastEntry(app_state').timestamp]_vars

\* a second entry has been appended behind a first one
C4_Witness ==
    /\ last_call.op = "add_work_entry"
    /\ Len(app_state.work_entries) = 2
    /\ LastEntry(app_state).ticket = T_bug7
    /\ app_state.work_entries[1].ticket = T_BUG42
    /\ app_state.last_activity = Some(2)

\* the prefix a ticket stands for: what precedes its first '-', or its first
\* three characters when it holds none
C5_DerivedPrefix(t) ==
    LET dashes == {i \in 1..Len(t) : t[i] = "-"}
    IN  IF dashes # {}
        THEN [i \in 1..((CHOOSE d \in dashes : \A x \in dashes : d <= x) - 1) |-> t[i]]
        ELSE [i \in 1..(IF Len(t) < 3 THEN Len(t) ELSE 3) |-> t[i]]

\* C5: after add_work_entry(ticket, project, ...) the mapping for project
\* exists and its patterns contain the derived prefix of ticket; the mapping of
\* every other project is as it was, and none is created for another project.
C5_AddLearnsPrefix ==
    [][last_call'.op = "add_work_entry" =>
        LET old == app_state.project_mappings
            new == app_state'.project_mappings
            p == last_call'.project[1]
        IN  /\ \E i \in 1..Len(new) :
                /\ new[i].k = p
                /\ list_in(C5_DerivedPrefix(last_call'.ticket[1]), new[i].v.ticket_patterns)
            /\ \A i \in 1..Len(old) : old[i].k # p => (i <= Len(new) /\ new[i] = old[i])
            /\ \A i \in 1..Len(new) : new[i].k # p => (i <= Len(old) /\ new[i] = old[i])]_vars

\* TASK-1 logged for Demo after BUG-42 for Alpha: Demo has learnt TASK, Alpha
\* still holds BUG only
C5_Witness ==
    /\ last_call.op = "add_work_entry"
    /\ last_call.ticket = Some(T_TASK1)
    /\ Len(app_state.project_mappings) = 2
    /\ app_state.project_mappings[1] =
           [k |-> P_Alpha, v |-> [ticket_patterns |-> << <<"B","U","G">> >>, name |-> P_Alpha]]
    /\ app_state.project_mappings[2].k = P_Demo
    /\ list_in(<<"T","A","S","K">>, app_state.project_mappings[2].v.ticket_patterns)

\* C6: in every state reached by Store operations, a set current_ticket
\* comes with a set current_project.
C6_TicketImpliesProject ==
    alive => (app_state.current_ticket # None => app_state.current_project # None)

\* C7: across any step that is not cleanup_test_data the old work_entries is a
\* prefix of the new one: nothing is removed, reordered or modified.
C7_EntriesAppendOnly ==
    [][(alive /\ alive' /\ last_call'.op # "cleanup_test_data") =>
        IsPrefixOf(app_state.work_entries, app_state'.work_entries)]_vars

\* stop_current_work has run over a list of two entries
C7_Witness ==
    /\ last_call.op = "stop_current_work"
    /\ Len(app_state.work_entries) = 2

\* C8: no mapping's ticket_patterns holds the same pattern twice.
C8_NoDuplicatePatterns ==
    alive =>
        \A i \in 1..Len(app_state.project_mappings) :
            LET tp == app_state.project_mappings[i].v.ticket_patterns
            IN  \A j, k \in 1..Len(tp) : j # k => tp[j] # tp[k]

\* BUG-42 has been logged twice for Alpha, whose mapping holds BUG
C8_Witness ==
    /\ last_call.op = "add_work_entry"
    /\ Len(app_state.work_entries) = 2
    /\ app_state.work_entries[1].ticket = T_BUG42
    /\ app_state.work_entries[2].ticket = T_BUG42
    /\ app_state.project_mappings[1].v.ticket_patterns = << <<"B","U","G">> >>

\* C9: update_current_work and stop_current_work leave work_entries,
\* project_mappings and last_activity alone; stop sets the three current_*
\* fields to None; update changes exactly the fields whose argument is not
\* None; both then save, and a save that succeeds leaves the state on disk.
C9_PointerOpsFrame ==
    [][last_call'.op \in {"update_current_work", "stop_current_work"} =>
        /\ app_state'.work_entries = app_state.work_entries
        /\ app_state'.project_mappings = app_state.project_mappings
        /\ app_state'.last_activity = app_state.last_activity
        /\ last_call'.op = "stop_current_work" =>
               /\ app_state'.current_ticket = None
               /\ app_state'.current_project = None
               /\ app_state'.current_details = None
        /\ last_call'.op = "update_current_work" =>
               /\ app_state'.current_ticket =
                      IF last_call'.ticket # None THEN last_call'.ticket
                      ELSE app_state.current_ticket
               /\ app_state'.current_project =
                      IF last_call'.project # None THEN last_call'.project
                      ELSE app_state.current_project
               /\ app_state'.current_details =
                      IF last_call'.details # None THEN last_call'.details
                      ELSE app_state.current_details
        /\ last_call'.save \in {"ok", "failed"}
        /\ last_call'.save = "ok" => parse_file(data_file') = Return(app_state')]_vars

\* update_current_work(details="") has run on a session logged by add_work_entry
C9_Witness ==
    /\ last_call.op = "update_current_work"
    /\ last_call.ticket = None
    /\ last_call.project = None
    /\ last_call.details = Some(D_empty)
    /\ last_call.save = "ok"
    /\ app_state.current_ticket = Some(T_bug7)
    /\ app_state.current_project = Some(P_Demo)
    /\ app_state.current_details = Some(D_empty)
    /\ Len(app_state.work_entries) = 1

\* pattern is a substring of ticket when letter case is ignored
C10_Matches(pattern, ticket) ==
    \E off \in 0..(Len(ticket) - Len(pattern)) :
        \A k \in 1..Len(pattern) : lower_char(pattern[k]) = lower_char(ticket[off + k])

C10_Expected(s, ticket) ==
    LET pm == s.project_mappings
        hits == {i \in 1..Len(pm) :
                    \E j \in 1..Len(pm[i].v.ticket_patterns) :
                        C10_Matches(pm[i].v.ticket_patterns[j], ticket)}
    IN  IF hits = {} THEN None
        ELSE Some(pm[CHOOSE i \in hits : \A x \in hits : i <= x].k)

\* C10: auto_detect_project(ticket) returns the first project, in insertion
\* order, one of whose patterns is a case-insensitive substring of ticket, None
\* exactly when there is none, and changes neither the state nor the files.
C10_AutoDetectFirstMatch ==
    [][last_call'.op = "get_project_for_ticket" =>
        /\ last_call'.result = C10_Expected(app_state, last_call'.ticket[1])
        /\ UNCHANGED <<app_state, data_file, tmp_file, backup_file>>]_vars

\* bug7 is asked for while Alpha holds BUG and Demo, inserted later, holds bug
C10_Witness ==
    /\ last_call.op = "get_project_for_ticket"
    /\ last_call.ticket = Some(T_bug7)
    /\ last_call.result = Some(P_Alpha)
    /\ Len(app_state.project_mappings) = 2
    /\ app_state.project_mappings[2].k = P_Demo
    /\ list_in(<<"b","u","g">>, app_state.project_mappings[2].v.ticket_patterns)

\* the Monday of the week of day d, and the day a clock reading falls on
C11_Monday(d) == CHOOSE m \in (d - 6)..d : m % 7 = 0
C11_Day(ts) == CHOOSE d \in 0..ts : 2 * d <= ts /\ ts <= 2 * d + 1

\* the entry's date d satisfies M + 7k <= d <= M + 7k + 6
C11_InWeek(ts, k) ==
    LET M == C11_Monday(C11_Day(now))
        d == C11_Day(ts)
    IN  M + 7 * k <= d /\ d <= M + 7 * k + 6

C11_Week(s, k) == SelectSeq(s.work_entries, LAMBDA e : C11_InWeek(e.timestamp, k))

\* C11: get_week_entries_with_offset(k), and get_current_week_entries for
\* k = 0, return in stored order exactly the entries dated from the Monday to
\* the Sunday of the week k weeks from the current one: that Monday and that
\* Sunday are inside, the Monday after is outside.
C11_WeekEntries ==
    [][last_call'.op \in {"get_week_entries_with_offset", "get_current_week_entries"} =>
        last_call'.result = C11_Week(app_state, last_call'.week_offset)]_vars

\* asked on Monday, day 14, for the week before: the entries of Monday, day 7,
\* and of Sunday, day 13, are returned, the one of day 14 is not
C11_Witness ==
    /\ last_call.op = "get_week_entries_with_offset"
    /\ last_call.week_offset = -1
    /\ now = 28
    /\ app_state.work_entries = <<ReportEntries[2], ReportEntries[5], ReportEntries[6]>>
    /\ last_call.result = <<ReportEntries[2], ReportEntries[5]>>

RECURSIVE C12_Sum(_)
C12_Sum(entries) ==
    IF Len(entries) = 0 THEN 0
    ELSE C12_Sum(SubSeq(entries, 1, Len(entries) - 1)) + entries[Len(entries)].duration

RECURSIVE C12_SumTimes(_)
C12_SumTimes(projects) ==
    IF Len(projects) = 0 THEN 0
    ELSE C12_SumTimes(SubSeq(projects, 1, Len(projects) - 1)) + projects[Len(projects)].v.time

\* C12: the weekly summary for the week at an offset has total_time the sum of
\* the durations of that week's entries, entries_count their number, and for
\* each project of that week its summed duration, its set of tickets and its
\* non-empty details; the times of the projects add up to total_time.
C12_SummaryOfWeek ==
    [][last_call'.op = "get_current_week_summary" =>
        LET week == C11_Week(app_state, last_call'.week_offset)
            r == last_call'.result
        IN  /\ r.total_time = C12_Sum(week)
            /\ r.entries_count = Len(week)
            /\ {r.projects[i].k : i \in 1..Len(r.projects)} =
                   {week[i].project : i \in 1..Len(week)}
            /\ \A i \in 1..Len(r.projects) :
                   LET mine == SelectSeq(week, LAMBDA e : e.project = r.projects[i].k)
                       said == SelectSeq(mine, LAMBDA e : e.details # << >>)
                   IN  /\ r.projects[i].v.time = C12_Sum(mine)
                       /\ r.projects[i].v.tickets = {mine[j].ticket : j \in 1..Len(mine)}
                       /\ r.projects[i].v.details = [j \in 1..Len(said) |-> said[j].details]
            /\ C12_SumTimes(r.projects) = r.total_time]_vars

\* text contains one of the fixed markers when letter case is ignored
C13_HasMarker(text) ==
    \E m \in 1..Len(test_patterns) :
        \E off \in 0..(Len(text) - Len(test_patterns[m])) :
            \A k \in 1..Len(test_patterns[m]) :
                lower_char(test_patterns[m][k]) = lower_char(text[off + k])

C13_Marked(e) ==
    C13_HasMarker(e.ticket) \/ C13_HasMarker(e.project) \/ C13_HasMarker(e.details)

\* C13: cleanup_test_data removes exactly the entries whose ticket, project or
\* details contains a marker, keeps the others in their order, and returns the
\* number removed: the length before minus the length after.
C13_CleanupRemovesMarked ==
    [][last_call'.op = "cleanup_test_data" =>
        /\ app_state'.work_entries =
               SelectSeq(app_state.work_entries, LAMBDA e : ~C13_Marked(e))
        /\ last_call'.result =
               Some(Len(app_state.work_entries) - Len(app_state'.work_entries))]_vars

\* TEST-1 and a "mock" entry were removed from between TASK-1 and BUG-42
C13_Witness ==
    /\ last_call.op = "cleanup_test_data"
    /\ last_call.result = Some(2)
    /\ Len(app_state.work_entries) = 2
    /\ app_state.work_entries[1].ticket = T_TASK1
    /\ app_state.work_entries[1].timestamp = 0
    /\ app_state.work_entries[2].ticket = T_BUG42
    /\ app_state.work_entries[2].details = D_empty
    /\ app_state.work_entries[2].timestamp = 2

\* C14: cleanup_test_data saves exactly when it removed something: an entry, a
\* mapping or the in-progress pointer; a save that succeeds leaves the file
\* equal to the state in memory, and a cleanup that changed nothing does not save.
C14_CleanupPersistsIffChanged ==
    [][last_call'.op = "cleanup_test_data" =>
        LET changed ==
                \/ app_state'.work_entries # app_state.work_entries
                \/ app_state'.project_mappings # app_state.project_mappings
                \/ app_state'.current_ticket # app_state.current_ticket
                \/ app_state'.current_project # app_state.current_project
                \/ app_state'.current_details # app_state.current_details
        IN  /\ changed =>
                /\ last_call'.save \in {"ok", "failed"}
                /\ last_call'.save = "ok" => parse_file(data_file') = Return(app_state')
            /\ ~changed => (last_call'.save = "none" /\ data_file' = data_file)]_vars

\* C15: after cleanup_test_data no mapping is left whose project name or one of
\* whose patterns contains a marker, and the in-progress pointer is cleared
\* whenever its ticket, project or details contained a marker.
C15_NoMarkerLeft ==
    [][last_call'.op = "cleanup_test_data" =>
        /\ \A i \in 1..Len(app_state'.project_mappings) :
               LET m == app_state'.project_mappings[i]
               IN  /\ ~C13_HasMarker(m.k)
                   /\ \A j \in 1..Len(m.v.ticket_patterns) :
                          ~C13_HasMarker(m.v.ticket_patterns[j])
        /\ (\/ C13_HasMarker(or_empty(app_state.current_ticket))
            \/ C13_HasMarker(or_empty(app_state.current_project))
            \/ C13_HasMarker(or_empty(app_state.current_details)))
           => /\ app_state'.current_ticket = None
              /\ app_state'.current_project = None
              /\ app_state'.current_details = None]_vars

\* C16: a second cleanup_test_data right after a first returns 0 and leaves
\* entries, mappings and the in-progress pointer as the first left them.
C16_CleanupIdempotent ==
    /\ [](alive =>
            LET first == cleanup_state(app_state)
                second == cleanup_state(first.state)
            IN  second.removed_count = 0 /\ second.state = first.state)
    /\ [][(last_call.op = "cleanup_test_data" /\ last_call'.op = "cleanup_test_data") =>
            (last_call'.result = Some(0) /\ app_state' = app_state)]_vars

\* a cleanup has returned 0 on a state an earlier cleanup took TEST-1 out of:
\* Alpha still holds the pattern TEST and no entry carries a marker
C16_Witness ==
    /\ last_call.op = "cleanup_test_data"
    /\ last_call.result = Some(0)
    /\ last_call.save = "none"
    /\ Len(app_state.work_entries) >= 1
    /\ \A i \in 1..Len(app_state.work_entries) : ~C13_Marked(app_state.work_entries[i])
    /\ \E i \in 1..Len(app_state.project_mappings) :
           /\ app_state.project_mappings[i].k = P_Alpha
           /\ list_in(<<"T","E","S","T">>, app_state.project_mappings[i].v.ticket_patterns)
    /\ app_state.current_ticket = None

\* C17: AppState.from_dict(s.to_dict()) equals s for every state s a
\* DataManager holds: entries, mappings, current_* fields and last_activity
\* alike; so a DataManager that loads the file another one saved holds the
\* state that was saved.
C17_RoundTrip ==
    alive =>
        /\ AppState_from_dict(AppState_to_dict(app_state)) = Return(app_state)
        /\ parse_file(json_dump(app_state)) = Return(app_state)
        /\ load_data(json_dump(app_state), tmp_file, backup_file, "ok").app_state
               = app_state
        /\ (last_call.op = "load" /\ data_file.t = "text" /\ last_call.save = "none")
               => AppState_from_dict(data_file.json) = Return(app_state)

\* a new process has loaded the two entries, the two mappings and the session
\* that an earlier one saved
C17_Witness ==
    /\ alive
    /\ last_call.op = "load"
    /\ last_call.save = "none"
    /\ data_file = json_dump(app_state)
    /\ Len(app_state.work_entries) = 2
    /\ app_state.work_entries[1].details = D_empty
    /\ app_state.work_entries[2].details = D_mock
    /\ Len(app_state.project_mappings) = 2
    /\ app_state.current_ticket = Some(T_bug7)
    /\ app_state.last_activity = Some(2)

\* C18: with no state file at start-up the constructor returns with a default
\* AppState, having attempted one save; unless that save failed, database.json
\* then holds the default state; no backup file is created.
C18_AbsentFileStartsDefault ==
    [][(last_call'.op = "load" /\ data_file = NoFile) =>
        /\ raised' = "none"
        /\ alive'
        /\ app_state' = AppState_default
        /\ backup_file' = backup_file
        /\ last_call'.save \in {"ok", "failed"}
        /\ last_call'.save = "ok" =>
               /\ data_file'.t = "text"
               /\ parse_file(data_file') = Return(AppState_default)]_vars

\* the first start has written the default state and no backup
C18_Witness ==
    /\ alive
    /\ last_call.op = "load"
    /\ last_call.save = "ok"
    /\ app_state = AppState_default
    /\ data_file = json_dump(AppState_default)
    /\ backup_file = NoFile

\* the number a string of digits stands for
RECURSIVE C19_Number(_)
C19_Number(s) ==
    IF Len(s) = 0 THEN 0
    ELSE 10 * C19_Number(SubSeq(s, 1, Len(s) - 1)) + digit_value(s[Len(s)])

\* the tenths a string "<digits>.<digit>" stands for
C19_Tenths(s) == 10 * C19_Number(SubSeq(s, 1, Len(s) - 2)) + digit_value(s[Len(s)])

C19_OneDecimal(s) ==
    /\ Len(s) >= 3
    /\ s[Len(s) - 1] = "."
    /\ \A i \in (1..Len(s)) \ {Len(s) - 1} : is_digit(s[i])

\* C19: for a week with entries the executive summary shows the sum of the
\* durations divided by 60 to one decimal place (it is off by no more than
\* half a tenth of an hour), the number of entries and the number of distinct
\* projects.
C19_ExecutiveSummary ==
    [][last_call'.op = "generate_weekly_report" =>
        LET week == C11_Week(app_state, last_call'.week_offset)
            file == reports'[last_call'.result]
            off == 10 * C12_Sum(week) - 60 * C19_Tenths(file.total_hours)
        IN  week # << >> =>
                /\ file.kind = "report"
                /\ C19_OneDecimal(file.total_hours)
                /\ -30 <= off /\ off <= 30
                /\ C19_Number(file.total_entries) = Len(week)
                /\ C19_Number(file.projects) =
                       Cardinality({week[i].project : i \in 1..Len(week)})]_vars

\* entries of 60, 30 and 120 minutes for Alpha, Alpha and Beta: 3.5 hours,
\* 3 entries, 2 projects
C19_Witness ==
    /\ last_call.op = "generate_weekly_report"
    /\ last_call.week_offset = -1
    /\ now = 28
    /\ app_state.work_entries = <<ReportEntries[2], ReportEntries[3], ReportEntries[4]>>
    /\ last_call.result \in DOMAIN reports
    /\ reports[last_call.result].total_hours = <<"3", ".", "5">>
    /\ reports[last_call.result].total_entries = <<"3">>
    /\ reports[last_call.result].projects = <<"2">>

\* a comes before b in lexicographic order of code points
C20_Less(a, b) ==
    \E k \in 1..Len(b) :
        /\ k <= Len(a) + 1
        /\ \A i \in 1..(k - 1) : a[i] = b[i]
        /\ k = Len(a) + 1 \/ ord(a[k]) < ord(b[k])

\* position of the first entry of a project
C20_FirstOf(week, project) ==
    CHOOSE i \in 1..Len(week) :
        week[i].project = project /\ \A j \in 1..(i - 1) : week[j].project # project

RECURSIVE C20_SumGroups(_)
C20_SumGroups(groups) ==
    IF Len(groups) = 0 THEN 0
    ELSE C20_SumGroups(SubSeq(groups, 1, Len(groups) - 1)) + groups[Len(groups)].v.total_time

\* C20: the report has one section per distinct project, in first-seen order;
\* in a section every distinct ticket of the project appears once, in ascending
\* lexicographic order, with the sum of its durations as time and the number of
\* its entries as sessions; the ticket times of a project add up to its total.
C20_SectionsAndTickets ==
    [][last_call'.op = "generate_weekly_report" =>
        LET week == C11_Week(app_state, last_call'.week_offset)
            file == reports'[last_call'.result]
        IN  week # << >> =>
            /\ {file.sections[i].name : i \in 1..Len(file.sections)} =
                   {week[i].project : i \in 1..Len(week)}
            /\ \A i, j \in 1..Len(file.sections) :
                   i < j => C20_FirstOf(week, file.sections[i].name)
                                < C20_FirstOf(week, file.sections[j].name)
            /\ \A i \in 1..Len(file.sections) :
                   LET sec == file.sections[i]
                       mine == SelectSeq(week, LAMBDA e : e.project = sec.name)
                       groups == ticket_groups(mine)
                   IN  /\ {sec.tickets[j].ticket : j \in 1..Len(sec.tickets)} =
                              {mine[j].ticket : j \in 1..Len(mine)}
                       /\ \A j, k \in 1..Len(sec.tickets) :
                              j < k => C20_Less(sec.tickets[j].ticket, sec.tickets[k].ticket)
                       /\ \A j \in 1..Len(sec.tickets) :
                              LET its == SelectSeq(mine,
                                             LAMBDA e : e.ticket = sec.tickets[j].ticket)
                              IN  /\ sec.tickets[j].time_spent = format_hours(C12_Sum(its))
                                  /\ C19_Number(sec.tickets[j].sessions) = Len(its)
                                  /\ group_of(groups, sec.tickets[j].ticket).total_time
                                         = C12_Sum(its)
                       /\ sec.total_time = format_hours(C12_Sum(mine))
                       /\ C20_SumGroups(groups) = C12_Sum(mine)]_vars

\* Alpha worked on X-1 twice on Monday and on B-2 on Sunday: its section lists
\* B-2 (0.8 hours, 1 session) before X-1 (1.5 hours, 2 sessions)
C20_Witness ==
    /\ last_call.op = "generate_weekly_report"
    /\ last_call.week_offset = -1
    /\ now = 28
    /\ app_state.work_entries = <<ReportEntries[2], ReportEntries[3], ReportEntries[5]>>
    /\ last_call.result \in DOMAIN reports
    /\ Len(reports[last_call.result].sections) = 1
    /\ reports[last_call.result].sections[1].name = P_Alpha
    /\ reports[last_call.result].sections[1].tickets =
           << [ticket |-> T_B2, time_spent |-> <<"0", ".", "8">>, sessions |-> <<"1">>,
               activities |-> <<D_fix>>],
              [ticket |-> T_X1, time_spent |-> <<"1", ".", "5">>, sessions |-> <<"2">>,
               activities |-> <<D_plan>>] >>

\* the date a day header of the daily breakdown, month/day, names
C21_DateOf(md) ==
    date_from_ymd(2025, C19_Number(SubSeq(md, 1, 2)), C19_Number(SubSeq(md, 4, 5)))

\* the entries of a list dated day d, and those of them of one project
C21_OnDay(week, d) == SelectSeq(week, LAMBDA e : C11_Day(e.timestamp) = d)
C21_Of(entries, project) == SelectSeq(entries, LAMBDA e : e.project = project)

\* a printed number of hours is within half a tenth of an hour of minutes
C21_Shows(hours, minutes) ==
    /\ C19_OneDecimal(hours)
    /\ -30 <= 10 * minutes - 60 * C19_Tenths(hours)
    /\ 10 * minutes - 60 * C19_Tenths(hours) <= 30

RECURSIVE C21_SumTenths(_)
C21_SumTenths(days) ==
    IF days = << >> THEN 0
    ELSE C19_Tenths(days[1].total) + C21_SumTenths(Tail(days))

\* C21: the daily breakdown of a report lists exactly the dates that have a
\* selected entry, in ascending order; the total of a day is the sum of the
\* durations of its entries; each project active on the day appears once, in
\* the order the projects are first seen that day, with the sum of its hours
\* and its distinct tickets; the totals of the days add up to the total of
\* the week (each printed total being within half a tenth of an hour).
C21_DailyBreakdown ==
    [][last_call'.op = "generate_weekly_report" =>
        LET week == C11_Week(app_state, last_call'.week_offset)
            file == reports'[last_call'.result]
            dates == {C11_Day(week[i].timestamp) : i \in 1..Len(week)}
        IN  week # << >> =>
              /\ Len(file.daily) = Cardinality(dates)
              /\ \A i \in 1..Len(file.daily) :
                    /\ C21_DateOf(file.daily[i].date) # None
                    /\ C21_DateOf(file.daily[i].date)[1] \in dates
                    /\ \A j \in 1..(i - 1) :
                          C21_DateOf(file.daily[j].date)[1] < C21_DateOf(file.daily[i].date)[1]
                    /\ LET mine == C21_OnDay(week, C21_DateOf(file.daily[i].date)[1])
                           ps == file.daily[i].projects
                       IN  /\ C21_Shows(file.daily[i].total, C12_Sum(mine))
                           /\ {ps[n].project : n \in 1..Len(ps)} =
                                  {mine[n].project : n \in 1..Len(mine)}
                           /\ \A n \in 1..Len(ps) :
                                 /\ \A m \in 1..(n - 1) :
                                       C20_FirstOf(mine, ps[m].project) <
                                           C20_FirstOf(mine, ps[n].project)
                                 /\ C21_Shows(ps[n].project_hours,
                                              C12_Sum(C21_Of(mine, ps[n].project)))
                                 /\ \A a, b \in 1..Len(ps[n].tickets) :
                                       ps[n].tickets[a] = ps[n].tickets[b] => a = b
                                 /\ {ps[n].tickets[a] : a \in 1..Len(ps[n].tickets)} =
                                        {C21_Of(mine, ps[n].project)[a].ticket :
                                           a \in 1..Len(C21_Of(mine, ps[n].project))}
              /\ 60 * C21_SumTenths(file.daily) - 10 * C12_Sum(week) <= 30 * Len(file.daily)
              /\ 10 * C12_Sum(week) - 60 * C21_SumTenths(file.daily) <= 30 * Len(file.daily)]_vars

\* the report of the week of day 7 from the three entries of that Monday: one
\* day of 3.8 hours, Beta before Alpha, Alpha with 1.8 hours and two tickets
C21_Witness ==
    /\ last_call.op = "generate_weekly_report"
    /\ last_call.week_offset = -1
    /\ app_state.work_entries = <<DailyEntries[1], DailyEntries[2], DailyEntries[3]>>
    /\ last_call.result \in DOMAIN reports
    /\ reports[last_call.result].kind = "report"
    /\ Len(reports[last_call.result].daily) = 1
    /\ reports[last_call.result].daily[1].day_name = "Monday"
    /\ reports[last_call.result].daily[1].date = <<"0","9","/","0","1">>
    /\ reports[last_call.result].daily[1].total = <<"3",".","8">>
    /\ Len(reports[last_call.result].daily[1].projects) = 2
    /\ reports[last_call.result].daily[1].projects[1].project = P_Beta
    /\ reports[last_call.result].daily[1].projects[2].project = P_Alpha
    /\ reports[last_call.result].daily[1].projects[2].project_hours = <<"1",".","8">>
    /\ reports[last_call.result].daily[1].projects[2].tickets = <<T_B2, T_X1>>

\* the Monday of the week week_offset weeks from the week of the clock reading ts
C22_Monday(ts, week_offset) == C11_Monday(C11_Day(ts)) + 7 * week_offset

\* the dates a header MM/DD/YYYY - MM/DD/YYYY names, None if it is not one
C22_HeaderDates(h) ==
    IF /\ Len(h) = 23
       /\ \A i \in {1, 2, 4, 5, 7, 8, 9, 10, 14, 15, 17, 18, 20, 21, 22, 23} : is_digit(h[i])
       /\ h[3] = "/" /\ h[6] = "/" /\ h[16] = "/" /\ h[19] = "/"
       /\ SubSeq(h, 11, 13) = <<" ", "-", " ">>
    THEN LET a == date_from_ymd(C19_Number(SubSeq(h, 7, 10)), C19_Number(SubSeq(h, 1, 2)),
                                C19_Number(SubSeq(h, 4, 5)))
             b == date_from_ymd(C19_Number(SubSeq(h, 20, 23)), C19_Number(SubSeq(h, 14, 15)),
                                C19_Number(SubSeq(h, 17, 18)))
         IN  IF a = None \/ b = None THEN None ELSE Some(<<a[1], b[1]>>)
    ELSE None

\* the dates a name weekly_report_YYYYMMDD-YYYYMMDD.md names, None if it is
\* not one
C22_NameDates(n) ==
    IF /\ Len(n) = 34
       /\ SubSeq(n, 1, 14) = <<"w","e","e","k","l","y","_","r","e","p","o","r","t","_">>
       /\ \A i \in (15..22) \cup (24..31) : is_digit(n[i])
       /\ n[23] = "-"
       /\ SubSeq(n, 32, 34) = <<".", "m", "d">>
    THEN LET a == date_from_ymd(C19_Number(SubSeq(n, 15, 18)), C19_Number(SubSeq(n, 19, 20)),
                                C19_Number(SubSeq(n, 21, 22)))
             b == date_from_ymd(C19_Number(SubSeq(n, 24, 27)), C19_Number(SubSeq(n, 28, 29)),
                                C19_Number(SubSeq(n, 30, 31)))
         IN  IF a = None \/ b = None THEN None ELSE Some(<<a[1], b[1]>>)
    ELSE None

\* C22: generate_weekly_report for a week with no entries does not fail: it
\* writes a file and returns its path, the name is the weekly_report_<start>-
\* <end> name of the week, as for a week with entries, and the content carries
\* the range MM/DD/YYYY - MM/DD/YYYY of the week and the statement that no
\* activities were recorded.
C22_EmptyWeek ==
    [][(last_call'.op = "generate_weekly_report"
          /\ C11_Week(app_state, last_call'.week_offset) = << >>) =>
        LET monday == C22_Monday(now', last_call'.week_offset)
        IN  /\ raised' = "none"
            /\ last_call'.result \in DOMAIN reports'
            /\ C22_NameDates(last_call'.result) = Some(<<monday, monday + 6>>)
            /\ reports'[last_call'.result].kind = "empty"
            /\ C22_HeaderDates(reports'[last_call'.result].week) = Some(<<monday, monday + 6>>)
            /\ reports'[last_call'.result].summary = "No activities were recorded this week."]_vars

\* asked on day 14 for the week two weeks before, which has no entry: the
\* report of 08/25/2025 - 08/31/2025
C22_Witness ==
    /\ last_call.op = "generate_weekly_report"
    /\ last_call.week_offset = -2
    /\ now = 28
    /\ app_state.work_entries = <<ReportEntries[2], ReportEntries[6]>>
    /\ last_call.result =
           <<"w","e","e","k","l","y","_","r","e","p","o","r","t","_",
             "2","0","2","5","0","8","2","5","-","2","0","2","5","0","8","3","1",".","m","d">>
    /\ last_call.result \in DOMAIN reports
    /\ reports[last_call.result].kind = "empty"
    /\ reports[last_call.result].week =
           <<"0","8","/","2","5","/","2","0","2","5"," ","-"," ",
             "0","8","/","3","1","/","2","0","2","5">>

\* C23: the name of a report is a function of the week only. Generating for a
\* week that has a report gives the same path and replaces the content; the
\* reports of other weeks have other paths and are left as they are; and
\* get_available_weeks returns one week for each report, with the start and
\* end dates of the week the report was written for, the most recent start
\* date first.
C23_NamesAndWeeks ==
    [][/\ last_call'.op = "generate_weekly_report" =>
            LET monday == C22_Monday(now', last_call'.week_offset)
            IN  /\ C22_NameDates(last_call'.result) = Some(<<monday, monday + 6>>)
                /\ DOMAIN reports' = DOMAIN reports \cup {last_call'.result}
                /\ \A n \in DOMAIN reports :
                      /\ C22_HeaderDates(reports[n].week) = Some(<<monday, monday + 6>>)
                             <=> n = last_call'.result
                      /\ n # last_call'.result => reports'[n] = reports[n]
       /\ last_call'.op = "get_available_weeks" =>
            LET weeks == last_call'.result
            IN  /\ Len(weeks) = Cardinality(DOMAIN reports)
                /\ \A n \in DOMAIN reports : \E i \in 1..Len(weeks) :
                      /\ weeks[i].file_path = n
                      /\ Some(<<weeks[i].start_date, weeks[i].end_date>>) =
                             C22_HeaderDates(reports[n].week)
                /\ \A i, j \in 1..Len(weeks) :
                      i < j => weeks[i].start_date > weeks[j].start_date]_vars

\* the reports of the weeks of day 7 and of day 14 have been written: the
\* week of day 14 is listed first
C23_Witness ==
    /\ last_call.op = "get_available_weeks"
    /\ Len(last_call.result) = 2
    /\ last_call.result[1].start_date = 14
    /\ last_call.result[1].end_date = 20
    /\ last_call.result[2].start_date = 7
    /\ last_call.result[2].end_date = 13
    /\ reports[last_call.result[1].file_path].kind = "report"

\* a text that is empty once the blanks around it are removed
C24_Blank(s) == \A i \in 1..Len(s) : s[i] = " "

\* C24: a request to create an entry whose ticket or project is missing, empty
\* after trimming, is rejected before any mutation: the entries, the work in
\* progress, last_activity and the mappings are unchanged; so no reachable
\* state holds an entry with an empty ticket or an empty project.
C24_MissingFieldRejected ==
    /\ [](alive => \A i \in 1..Len(app_state.work_entries) :
                      /\ app_state.work_entries[i].ticket # << >>
                      /\ app_state.work_entries[i].project # << >>)
    /\ [][(/\ last_call'.op = "on_add_work"
           /\ C24_Blank(last_call'.ticket[1]) \/ C24_Blank(last_call'.project[1])) =>
              /\ app_state' = app_state
              /\ data_file' = data_file]_vars

\* an entry has been logged, and then the dialog is answered with a ticket of
\* two blanks: the state still holds the one entry
C24_Witness ==
    /\ last_call.op = "on_add_work"
    /\ last_call.ticket = Some(<<" ", " ">>)
    /\ last_call.project = Some(P_Demo)
    /\ last_call.save = "none"
    /\ alive
    /\ Len(app_state.work_entries) = 1
    /\ app_state.work_entries[1].ticket = T_TASK1
    /\ app_state.work_entries[1].project = P_Demo
    /\ app_state.work_entries[1].details = D_mock

\* C25: rendering is deterministic: for the entries and the week of any state,
\* every rendering the interpreter can produce is the same text, the order of
\* the tickets of a project in a day of the daily breakdown included.
C25_Deterministic ==
    (alive /\ pc = "idle") =>
        \A k \in WeekOffsets :
            LET tickets == {e.ticket : e \in
                              {selected_entries(app_state, date_of(now), k)[i] :
                                 i \in 1..Len(selected_entries(app_state, date_of(now), k))}}
            IN  \A s1, s2 \in iteration_orders(tickets) :
                    weekly_report(app_state, date_of(now), date_of(now), s1, k).content =
                        weekly_report(app_state, date_of(now), date_of(now), s2, k).content

\* C26: under every interleaving of two or more starts of the daemon, a
\* stale lock of a dead process possibly present, at most one process gets
\* past the lock step and makes a TrayWeeklyReportDaemon, and the lock file of
\* a live instance is never removed by another process that is starting.
C26_SingleInstance ==
    /\ [](Cardinality({p \in Procs : proc[p].pc = "daemon"}) <= 1)
    /\ [][(/\ lock_file.t = "lock"
           /\ lock_file.owner \in Procs
           /\ lock_file'.t = "absent") =>
              proc'[lock_file.owner].pc = "exited"]_vars

\* C27: every day of entries rendered in a generated report lies inside the
\* week that the header and the file name of the report name, also when the
\* date advances while generate_weekly_report runs.
C27_EntriesInsideNamedWeek ==
    [][last_call'.op = "generate_weekly_report" =>
        LET file == reports'[last_call'.result]
            named == C22_NameDates(last_call'.result)
        IN  file.kind = "report" =>
              /\ named # None
              /\ C22_HeaderDates(file.week) = named
              /\ \A i \in 1..Len(file.daily) :
                    /\ C21_DateOf(file.daily[i].date) # None
                    /\ named[1][1] <= C21_DateOf(file.daily[i].date)[1]
                    /\ C21_DateOf(file.daily[i].date)[1] <= named[1][2]]_vars

\* C28: in every state reached by add_work_entry calls with a non-empty ticket
\* and a non-empty project no mapping holds the empty string as a pattern, so
\* auto_detect_project returns a project only for a ticket that contains a
\* prefix learned from an entry.
C28_NoEmptyPattern ==
    alive =>
        /\ \A i \in 1..Len(app_state.project_mappings) :
              \A j \in 1..Len(app_state.project_mappings[i].v.ticket_patterns) :
                  app_state.project_mappings[i].v.ticket_patterns[j] # << >>
        /\ (last_call.op = "get_project_for_ticket" /\ last_call.result # None) =>
              \E n \in 1..Len(app_state.work_entries) :
                  /\ C5_DerivedPrefix(app_state.work_entries[n].ticket) # << >>
                  /\ C10_Matches(C5_DerivedPrefix(app_state.work_entries[n].ticket),
                                 last_call.ticket[1])

\* C29: once Load has renamed a corrupt state file to the .backup name, the
\* content of that backup is never overwritten or deleted by a later
\* operation, a later Load that quarantines another corrupt file included.
C29_BackupKept ==
    [][backup_file # NoFile => backup_file' = backup_file]_vars

\* the entries a written state file holds
C30_Saved(f) == {f.json.v.work_entries.v[i] : i \in 1..Len(f.json.v.work_entries.v)}

\* C30: no update is lost between the daemon and the status script: every
\* entry saved to the state file by either process is still in the file after
\* any later save by the other, unless a cleanup removed it.
C30_NoLostUpdate ==
    [][(/\ data_file.t = "text"
        /\ data_file'.t = "text"
        /\ last_call'.op \notin {"cleanup_test_data", "script_cleanup_test_data"}) =>
            C30_Saved(data_file) \subseteq C30_Saved(data_file')]_vars

====
